---- MODULE Spec2Model ----
(***************************************************************************)
(* Likes, comments, collections, the feed and the storage rules of the     *)
(* XYZen short-video app, as the client code drives them against Firebase. *)
(* Every awaited Firestore                                                 *)
(* write is one atomic step of the server; the steps of different calls    *)
(* interleave freely.  A write either commits or is rejected (security     *)
(* rules, missing document, lost connection), and a rejected write throws  *)
(* in the calling code.                                                    *)
(***************************************************************************)
EXTENDS Integers, FiniteSets, Sequences, TLC

\* ---------------------------------------------------------------- bounds
NumUsers == 2
NumPosts == 2
\* the posts the devices have on screen
NumShown == 1
MaxCalls == 2
\* posts in the database when the feed screen opens
MaxFeedPosts == 21
\* snapshots the feed listener's handler is run for
MaxHandlers == 2
\* runs of the feed screen's effect
MaxSubs == 2

Users == 1..NumUsers
Posts == 1..NumPosts
Shown == 1..NumShown
CallIds == 1..MaxCalls
HandlerIds == 1..MaxHandlers
\* limit(20) of the feed query
FeedLimit == 20
NoUser == 0

\* 1024 * 1024 bytes
MB == 1024 * 1024

\* the top-level folders the clients upload into; 'posts' is the one of
\* feedService.uploadMedia
Folders == {"profilePictures", "thumbnails", "clips", "collections", "posts"}

\* sizes of uploaded files, in bytes: around each limit of the rules
Sizes == {0, 2 * MB - 1, 2 * MB, 5 * MB - 1, 5 * MB, 5 * MB + 1,
          50 * MB - 1, 50 * MB, 50 * MB + 1}

\* content types, character groups of the header value
ContentTypes == {<<"image", "/", "jpeg">>, <<"video", "/", "mp4">>, <<"image">>,
                 <<"x", "video", "/", "mp4">>}

\* comment texts: empty, blank, a letter between blanks
Texts == {<<>>, <<" ">>, <<" ", "a", " ">>}

\* the names a user picks or types for a collection: two titles, and one typed
\* with a trailing blank
Names == {<<"A">>, <<"B">>, <<"A", " ">>}

\* the option 'New Collection...' of the upload screen
NewCollection == <<"New Collection...">>

VARIABLES
  postOwner,    \* posts/{p}.userId
  likes,        \* posts/{p}.likes
  likedBy,      \* posts/{p}.likedBy
  likeCount,    \* posts/{p}.likeCount
  comments,     \* posts/{p}.comments
  commentCount, \* posts/{p}.commentCount
  likedPosts,   \* users/{u}.likedPosts
  likeDocs,     \* number of documents of collection 'likes' per (postId, userId)
  commentDocs,  \* the documents of collection 'comments', in order of creation
  player,       \* VideoPlayer state on each user's device
  modal,        \* CommentModal state on each user's device
  calls,        \* the asynchronous calls in flight
  wq,           \* per device, the calls whose next write is queued, oldest first
  ncalls,       \* number of calls started so far
  collDocs,     \* the documents of collection 'collections', in order of creation
  clips,        \* the posts created by uploads: userId and collection
  feed,         \* FeedScreen state of one device: subscription, userCache, feedData
  handlers,     \* the runs of the feed listener's asynchronous snapshot handler
  upload,       \* the last write sent to Cloud Storage, and the rules' answer
  auth,         \* AuthProvider state of one device, and the SDK's auth.currentUser
  likeHist,     \* history: per post, whether only first likes on the straight path touched it, and by whom
  seq           \* history: two presses of one user in immediate sequence

postVars == <<postOwner, likes, likedBy, likeCount, comments, commentCount>>
commentDbVars == <<comments, commentCount, commentDocs>>
dbVars == <<postOwner, likes, likedBy, likeCount, comments, commentCount, likedPosts,
            likeDocs, commentDocs>>
\* collections and uploaded clips: state the like and comment handlers never touch
otherVars == <<collDocs, clips>>
\* what the collection handlers never touch
interactVars == <<dbVars, player, modal, wq, likeHist, seq>>
\* the feed screen: state only the feed listener touches
feedVars == <<feed, handlers>>
uiVars == <<player, modal>>
histVars == <<likeHist, seq>>
vars == <<postOwner, likes, likedBy, likeCount, comments, commentCount, likedPosts,
          likeDocs, commentDocs, player, modal, calls, wq, ncalls, collDocs, clips,
          feed, handlers, upload, auth, likeHist, seq>>

\* ------------------------------------------------- Firestore field values
Increment(v, d) == v + d

ArrayUnionOverwrite(s, x) == {x}
ArrayUnion(s, x) == s \cup {x}

ArrayRemove(s, x) == s \ {x}

\* String.prototype.trim on a text
RECURSIVE TrimLeft(_)
TrimLeft(s) == IF s # <<>> /\ Head(s) = " " THEN TrimLeft(Tail(s)) ELSE s

RECURSIVE TrimRight(_)
TrimRight(s) ==
  IF s # <<>> /\ s[Len(s)] = " " THEN TrimRight(SubSeq(s, 1, Len(s) - 1)) ELSE s

Trim(s) == TrimRight(TrimLeft(s))

\* ------------------------------------------------------- security rules
\* match /posts/{postId}: allow update
PostUpdateAllowed(uid, p, keys) ==
  /\ uid # NoUser
  /\ \/ postOwner[p] = uid
     \/ keys \subseteq {"likes", "likedBy"}
     \/ keys \subseteq {"likes", "comments", "likedBy"}

\* match /users/{userId}: allow create, update
UserUpdateAllowed(uid, userId) == uid # NoUser /\ uid = userId

\* match /likes/{likeId}: allow create
LikeCreateAllowed(uid, userId) == uid # NoUser /\ userId = uid

\* match /comments/{commentId}: allow create
CommentCreateAllowed(uid, userId) == uid # NoUser /\ userId = uid

\* match /comments/{commentId}: allow update, delete.  The rule reads
\* resource.data, which a document that does not exist has not: it is denied.
CommentDeleteAnyone(uid, exists, userId) == uid # NoUser /\ exists
CommentDeleteAllowed(uid, exists, userId) == uid # NoUser /\ exists /\ userId = uid

\* match /comments/{commentId}: allow update, the same condition
CommentUpdateAllowed(uid, exists, userId) == uid # NoUser /\ exists /\ userId = uid

\* auth.currentUser is set: the services' "if (!auth.currentUser) return"
AnyoneSignedIn(currentUser) == TRUE
SignedIn(currentUser) == currentUser # NoUser

\* ------------------------------------------------------------ call records
NoResult == [success |-> FALSE, newLikeStatus |-> FALSE, countDelta |-> 0, threw |-> FALSE]

IdleCall ==
  [op |-> "none", pc |-> "idle", user |-> NoUser, client |-> NoUser, post |-> 0,
   isCurrentlyLiked |-> FALSE, text |-> <<>>, commentCount |-> 0, commentId |-> 0,
   collection |-> <<>>, customCollection |-> <<>>, collId |-> 0, itemCount |-> 0,
   selectedClips |-> {}, moved |-> {}, fromColl |-> 0, fromCount |-> 0, toCount |-> 0,
   result |-> NoResult, line |-> 0,
   nDelta |-> 0, edge |-> FALSE, usr |-> FALSE, mounted |-> FALSE,
   created |-> 0, counted |-> FALSE, removed |-> FALSE, envFail |-> FALSE,
   video |-> "none", thumb |-> "none", loading |-> FALSE, alert |-> "none",
   localLikes0 |-> 0]

\* const newLikeStatus = !isCurrentlyLiked
NewLikeStatus(c) == ~calls[c].isCurrentlyLiked

Delta(c) == IF NewLikeStatus(c) THEN 1 ELSE -1

InFlight(c) == calls[c].pc # "idle"

FreeSlot ==
  CHOOSE c \in CallIds :
    calls[c].pc = "idle" /\ \A d \in CallIds : calls[d].pc = "idle" => c <= d

\* A call that returned without awaiting anything: its caller resumes before
\* the device handles any other event.
LocalPending(u) ==
  \E c \in CallIds : calls[c].client = u /\ calls[c].pc = "ret" /\ calls[c].line \in {30, 53, 71, 152, 155}

\* The SDK sends the writes of one device in the order they were issued.
Turn(c) == wq[calls[c].client] # <<>> /\ Head(wq[calls[c].client]) = c

\* the call's write was answered; more: the call issues another write
Answered(c, more) ==
  [wq EXCEPT ![calls[c].client] = IF more THEN Append(Tail(@), c) ELSE Tail(@)]

Issue(u, c) == [wq EXCEPT ![u] = Append(@, c)]

\* ------------------------------------------------------------ AuthProvider
\* useState(true), useState(false), useState(null), useState(null); the SDK
\* has not told the listener anything yet.  lastEvent, runs and signedOut
\* are history: the user of the latest auth-state event, the listener runs
\* awaiting fetchUserProfile, and whether the last change of the signed-in
\* user was a signout that succeeded.
NoAuth ==
  [loading |-> TRUE, session |-> FALSE, user |-> NoUser, userProfile |-> NoUser,
   currentUser |-> NoUser, started |-> FALSE, lastEvent |-> NoUser,
   runs |-> [u \in Users |-> 0], signedOut |-> FALSE]

\* ---------------------------------------------------------------- history
IdleSeq ==
  [phase |-> 0, client |-> NoUser, post |-> 0, likes0 |-> 0, by0 |-> FALSE, posts0 |-> FALSE]

CleanHist == [clean |-> TRUE, users |-> {}]
DirtyHist == [clean |-> FALSE, users |-> {}]

\* the post's history after a call leaves the straight path of the like branch
Spoil(p) == [likeHist EXCEPT ![p] = DirtyHist]

\* ------------------------------------------------------------------ Init
\* no write has been sent to Cloud Storage
NoUpload ==
  [uid |-> NoUser, folder |-> "", userId |-> NoUser, size |-> 0, contentType |-> <<>>,
   sent |-> FALSE, allowed |-> FALSE]

\* the feed screen before it is mounted: feedData = EMPTY_FEED, userCache = {}.
\* sub counts the runs of the effect, active tells whether the listener of the
\* last run is still subscribed, closure is the userCache that run captured,
\* changed whether setUserCache was called since, delivered the number of posts
\* of the last snapshot the listener received.  History: fromVer and fromPosts
\* name the handler run that set feedData and the number of posts that existed
\* when its snapshot was taken, late whether a handler run set feedData after
\* its listener was unsubscribed.
IdleFeed ==
  [mounted |-> FALSE, sub |-> 0, active |-> FALSE, closure |-> {}, userCache |-> {},
   changed |-> FALSE, delivered |-> -1, feedData |-> <<>>,
   fromVer |-> 0, fromPosts |-> -1, late |-> FALSE]

\* a run of the snapshot handler: the subscription it belongs to, the userCache
\* of its closure, the documents of its snapshot, newest first, and the number
\* of posts that existed when the snapshot was taken
IdleHandler == [pc |-> "idle", sub |-> 0, closure |-> {}, docs |-> <<>>, n |-> 0]

\* Post 1 exists with likes: 0, comments: 0; the users in L have liked it
\* earlier (a completed like each), and the players of the devices in F show
\* it: a player shows isLiked = false until the liked status is loaded, and
\* always on the collection screen.
InitCollDocs ==
  << [title |-> <<"A">>, createdBy |-> 1, itemCount |-> 1, uploads |-> 1],
     [title |-> <<"B">>, createdBy |-> 1, itemCount |-> 0, uploads |-> 0] >>

\* the ids a collection document or a clip can get
DocIds == 1..(MaxCalls + Len(InitCollDocs))

RECURSIVE InitComments(_)
InitComments(K) ==
  IF K = {} THEN <<>>
  ELSE LET u == CHOOSE x \in K : \A y \in K : y <= x
       IN Append(InitComments(K \ {u}), [exists |-> TRUE, videoId |-> 1, postId |-> 0,
                                         userId |-> u, text |-> <<"a">>, likes |-> 0,
                                         applied |-> [w \in Users |-> 0]])

\* C: user 1 has uploaded a clip into a new collection "A" and has created an
\* empty collection "B" on the create-collection screen.
\* K: the users who have each added one comment to post 1 earlier (a
\* completed commentService.addComment each)
InitRest(L, F, K) ==
  /\ postOwner = [p \in Posts |-> 1]
  /\ likes = [p \in Posts |-> IF p = 1 THEN Cardinality(L) ELSE 0]
  /\ likedBy = [p \in Posts |-> IF p = 1 THEN L ELSE {}]
  /\ likeCount = [p \in Posts |-> 0]
  /\ comments = [p \in Posts |-> IF p = 1 THEN Cardinality(K) ELSE 0]
  /\ commentCount = [p \in Posts |-> 0]
  /\ likedPosts = [u \in Users |-> IF u \in L THEN {1} ELSE {}]
  /\ likeDocs = [k \in Posts \X Users |-> 0]
  /\ commentDocs = InitComments(K)
  /\ player = [u \in Users |->
                 [post |-> 1, localIsLiked |-> (u \in F), localLikes |-> Cardinality(L)]]
  /\ modal = [u \in Users |-> [posting |-> FALSE, commentCount |-> 0, likedComments |-> {}]]
  /\ calls = [c \in CallIds |-> IdleCall]
  /\ wq = [u \in Users |-> <<>>]
  /\ ncalls = 0
  /\ likeHist = [p \in Posts |-> IF p = 1 /\ L # {} THEN DirtyHist ELSE CleanHist]
  /\ seq = IdleSeq

InitState(L, F, K, C) ==
  /\ InitRest(L, F, K)
  /\ collDocs = IF C THEN InitCollDocs ELSE <<>>
  /\ clips = IF C THEN <<[userId |-> 1, collection |-> <<"A">>]>> ELSE <<>>
  /\ feed = IdleFeed
  /\ handlers = [h \in HandlerIds |-> IdleHandler]
  /\ upload = NoUpload
  /\ auth = NoAuth

InitWith(L, F) == InitState(L, F, {}, FALSE)

Init == \E L \in SUBSET Users : \E F \in SUBSET L : InitWith(L, F)

\* nobody has liked anything yet
InitFresh == InitWith({}, {})

\* every user has commented on post 1
InitCommented == InitState({}, {}, Users, FALSE)

\* user 1 has a collection with one clip and an empty collection
InitCollections == InitState({}, {}, {}, TRUE)

\* ------------------------------------------------------ VideoPlayer (UI)
\* A VideoPlayer for post p is (re)mounted on u's device.  The feed passes
\* isLiked = likedStatus[id] || false (loaded from users/{u}.likedPosts, false
\* until loaded); the collection screen passes isLiked = {false}.
Mount(u, p, isLiked) ==
  /\ ~LocalPending(u)
  /\ isLiked \in {FALSE, (p \in likedPosts[u])}
  /\ \/ [post |-> p, localIsLiked |-> isLiked, localLikes |-> likes[p]] # player[u]
     \/ modal[u].likedComments # {}
  /\ player' = [player EXCEPT ![u] =
                  [post |-> p, localIsLiked |-> isLiked, localLikes |-> likes[p]]]
  /\ modal' = [modal EXCEPT ![u] = [posting |-> FALSE, commentCount |-> comments[p],
                                     likedComments |-> {}]]
  /\ calls' = [c \in CallIds |->
                 IF calls[c].client = u THEN [calls[c] EXCEPT !.mounted = FALSE]
                 ELSE calls[c]]
  /\ seq' = IdleSeq
  /\ UNCHANGED <<otherVars, feedVars, upload, auth, dbVars, wq, ncalls, likeHist>>

\* handleLikePress up to its await: optimistic update, then togglePostLike
\* runs to its first await (or returns at once when nobody is signed in).
HandleLikePress(u, currentUser) ==
  /\ ncalls < MaxCalls
  /\ ~LocalPending(u)
  /\ currentUser \in {u, NoUser}
  /\ LET c == FreeSlot
         p == player[u].post
         cur == player[u].localIsLiked
         newLikeStatus == ~cur
         quiet == \A d \in CallIds : ~InFlight(d)
     IN /\ player' = [player EXCEPT
                        ![u].localIsLiked = newLikeStatus,
                        ![u].localLikes = IF newLikeStatus THEN @ + 1 ELSE @ - 1]
        /\ calls' = [calls EXCEPT ![c] =
             [IdleCall EXCEPT
                !.op = "toggle", !.user = currentUser, !.client = u,
                !.post = p, !.isCurrentlyLiked = cur,
                !.localLikes0 = player[u].localLikes,
                !.mounted = TRUE,
                !.pc = IF ~SignedIn(currentUser) THEN "ret" ELSE "postWrite",
                !.line = IF ~SignedIn(currentUser) THEN 53 ELSE 0,
                !.result = [NoResult EXCEPT !.newLikeStatus = cur]]]
        /\ wq' = IF ~SignedIn(currentUser) THEN wq ELSE Issue(u, c)
        /\ ncalls' = ncalls + 1
        /\ likeHist' = IF ~SignedIn(currentUser) THEN likeHist
                       ELSE IF likeHist[p].clean /\ newLikeStatus /\ u \notin likeHist[p].users
                       THEN [likeHist EXCEPT ![p].users = @ \cup {u}]
                       ELSE Spoil(p)
        /\ seq' = IF quiet /\ seq.phase = 2 /\ seq.client = u /\ seq.post = p
                  THEN [seq EXCEPT !.phase = 3]
                  ELSE IF quiet
                  THEN [phase |-> 1, client |-> u, post |-> p, likes0 |-> likes[p],
                        by0 |-> (u \in likedBy[p]), posts0 |-> (p \in likedPosts[u])]
                  ELSE IdleSeq
  /\ UNCHANGED <<otherVars, feedVars, upload, auth, dbVars, modal>>

\* handleLikePress after the await: revert the optimistic update on failure.
Resume(c) ==
  /\ calls[c].op = "toggle"
  /\ calls[c].pc = "ret"
  /\ LET u == calls[c].client
         cur == calls[c].isCurrentlyLiked
         newLikeStatus == ~cur
     IN player' = IF calls[c].mounted /\ ~calls[c].result.success
                  THEN [player EXCEPT
                          ![u].localIsLiked = cur,
                          ![u].localLikes = IF newLikeStatus THEN @ - 1 ELSE @ + 1]
                  ELSE player
  /\ calls' = [calls EXCEPT ![c] = IdleCall]
  /\ seq' = IF seq.phase \in {1, 3} /\ calls[c].result.success /\ calls[c].line \in {76, 89}
            THEN [seq EXCEPT !.phase = @ + 1]
            ELSE IdleSeq
  /\ UNCHANGED <<otherVars, feedVars, upload, auth, dbVars, modal, wq, ncalls, likeHist>>

\* -------------------------------------------------------- togglePostLike
Success(c, ln) ==
  [calls[c] EXCEPT !.pc = "ret", !.line = ln,
     !.result = [NoResult EXCEPT !.success = TRUE, !.newLikeStatus = NewLikeStatus(c),
                                 !.countDelta = Delta(c)]]

\* updateDoc(postRef, {likes: increment(+-1), likedBy: arrayUnion/arrayRemove})
PostWrite(c, ok) ==
  /\ calls[c].op = "toggle"
  /\ calls[c].pc = "postWrite"
  /\ Turn(c)
  /\ LET p == calls[c].post
         u == calls[c].user
     IN IF ok /\ PostUpdateAllowed(u, p, {"likes", "likedBy"})
        THEN /\ likes' = [likes EXCEPT ![p] = Increment(@, Delta(c))]
             /\ likedBy' = [likedBy EXCEPT ![p] =
                              IF NewLikeStatus(c) THEN ArrayUnion(@, u)
                              ELSE ArrayRemove(@, u)]
             /\ calls' = [calls EXCEPT ![c].pc = "userWrite",
                                       ![c].nDelta = @ + 1,
                                       ![c].edge = TRUE]
             /\ UNCHANGED likeHist
        ELSE /\ calls' = [calls EXCEPT ![c].pc = "fbPost", ![c].envFail = @ \/ ~ok]
             /\ likeHist' = Spoil(p)
             /\ UNCHANGED <<likes, likedBy>>
  /\ wq' = Answered(c, TRUE)
  /\ UNCHANGED <<otherVars, feedVars, upload, auth, postOwner, likeCount, likedPosts, likeDocs, commentDbVars, uiVars,
                 ncalls, seq>>

\* updateDoc(userRef, {likedPosts: arrayUnion/arrayRemove(postId)})
UserWrite(c, ok) ==
  /\ calls[c].op = "toggle"
  /\ calls[c].pc = "userWrite"
  /\ Turn(c)
  /\ LET p == calls[c].post
         u == calls[c].user
     IN IF ok /\ UserUpdateAllowed(u, u)
        THEN /\ likedPosts' = [likedPosts EXCEPT ![u] =
                                 IF NewLikeStatus(c) THEN ArrayUnion(@, p)
                                 ELSE ArrayRemove(@, p)]
             /\ calls' = [calls EXCEPT
                            ![c] = [Success(c, IF NewLikeStatus(c) THEN 76 ELSE 89)
                                      EXCEPT !.usr = TRUE]]
             /\ wq' = Answered(c, FALSE)
             /\ UNCHANGED likeHist
        ELSE /\ calls' = [calls EXCEPT ![c].pc = "fbPost", ![c].envFail = @ \/ ~ok]
             /\ wq' = Answered(c, TRUE)
             /\ likeHist' = Spoil(p)
             /\ UNCHANGED likedPosts
  /\ UNCHANGED <<otherVars, feedVars, upload, auth, postVars, likeDocs, commentDocs, uiVars, ncalls, seq>>

\* catch: updateDoc(postRef, {likes: increment(newLikeStatus ? 1 : -1)})
FallbackPostWrite(c, ok) ==
  /\ calls[c].op = "toggle"
  /\ calls[c].pc = "fbPost"
  /\ Turn(c)
  /\ LET p == calls[c].post
         u == calls[c].user
     IN IF ok /\ PostUpdateAllowed(u, p, {"likes"})
        THEN /\ likes' = [likes EXCEPT ![p] = Increment(@, Delta(c))]
             /\ calls' = [calls EXCEPT ![c].pc = "fbUser", ![c].nDelta = @ + 1]
             /\ wq' = Answered(c, TRUE)
        ELSE /\ calls' = [calls EXCEPT ![c].pc = "ret", ![c].line = 113,
                            ![c].envFail = @ \/ ~ok,
                            ![c].result = [NoResult EXCEPT
                                             !.newLikeStatus = calls[c].isCurrentlyLiked]]
             /\ wq' = Answered(c, FALSE)
             /\ UNCHANGED likes
  /\ UNCHANGED <<otherVars, feedVars, upload, auth, postOwner, likedBy, likeCount, likedPosts, likeDocs, commentDbVars,
                 uiVars, ncalls, histVars>>

\* catch: inner try { updateDoc(userRef, ...) } catch { log }, then success
FallbackUserWrite(c, ok) ==
  /\ calls[c].op = "toggle"
  /\ calls[c].pc = "fbUser"
  /\ Turn(c)
  /\ LET p == calls[c].post
         u == calls[c].user
     IN IF ok /\ UserUpdateAllowed(u, u)
        THEN /\ likedPosts' = [likedPosts EXCEPT ![u] =
                                 IF NewLikeStatus(c) THEN ArrayUnion(@, p)
                                 ELSE ArrayRemove(@, p)]
             /\ calls' = [calls EXCEPT ![c] = [Success(c, 110) EXCEPT !.usr = TRUE]]
        ELSE /\ calls' = [calls EXCEPT ![c] = [Success(c, 110) EXCEPT !.envFail = @ \/ ~ok]]
             /\ UNCHANGED likedPosts
  /\ wq' = Answered(c, FALSE)
  /\ UNCHANGED <<otherVars, feedVars, upload, auth, postVars, likeDocs, commentDocs, uiVars, ncalls, histVars>>

\* -------------------------------------------------- likePost (feedService)
\* likePost(postId, userId) is called; its query is sent.
LikePost(u, p) ==
  /\ ncalls < MaxCalls
  /\ ~LocalPending(u)
  /\ calls' = [calls EXCEPT ![FreeSlot] =
                 [IdleCall EXCEPT !.op = "likePost", !.pc = "query", !.user = u,
                                  !.client = u, !.post = p]]
  /\ ncalls' = ncalls + 1
  /\ UNCHANGED <<otherVars, feedVars, upload, auth, dbVars, uiVars, wq, histVars>>

\* getDocs(query(likes, postId == p, userId == u)); if (querySnapshot.empty) ...
LikeQuery(c) ==
  /\ calls[c].op = "likePost"
  /\ calls[c].pc = "query"
  /\ IF likeDocs[<<calls[c].post, calls[c].user>>] = 0
     THEN /\ calls' = [calls EXCEPT ![c].pc = "addLike"]
          /\ wq' = Issue(calls[c].client, c)
     ELSE /\ calls' = [calls EXCEPT ![c].pc = "ret", ![c].line = 119]
          /\ UNCHANGED wq
  /\ UNCHANGED <<otherVars, feedVars, upload, auth, dbVars, uiVars, ncalls, histVars>>

\* addDoc(collection(db, 'likes'), {postId, userId, createdAt})
LikeAddDoc(c, ok) ==
  /\ calls[c].op = "likePost"
  /\ calls[c].pc = "addLike"
  /\ Turn(c)
  /\ LET p == calls[c].post
         u == calls[c].user
     IN IF ok /\ LikeCreateAllowed(u, u)
        THEN /\ likeDocs' = [likeDocs EXCEPT ![<<p, u>>] = @ + 1]
             /\ calls' = [calls EXCEPT ![c].pc = "updLikeCount", ![c].edge = TRUE]
             /\ wq' = Answered(c, TRUE)
        ELSE /\ calls' = [calls EXCEPT ![c].pc = "ret", ![c].line = 123,
                                       ![c].envFail = @ \/ ~ok,
                                       ![c].result.threw = TRUE]
             /\ wq' = Answered(c, FALSE)
             /\ UNCHANGED likeDocs
  /\ UNCHANGED <<otherVars, feedVars, upload, auth, postVars, likedPosts, commentDocs, uiVars, ncalls, histVars>>

\* updateDoc(postRef, {likeCount: increment(1)})
LikeUpdateCount(c, ok) ==
  /\ calls[c].op = "likePost"
  /\ calls[c].pc = "updLikeCount"
  /\ Turn(c)
  /\ LET p == calls[c].post
         u == calls[c].user
     IN IF ok /\ PostUpdateAllowed(u, p, {"likeCount"})
        THEN /\ likeCount' = [likeCount EXCEPT ![p] = Increment(@, 1)]
             /\ calls' = [calls EXCEPT ![c].pc = "ret", ![c].line = 116,
                                       ![c].nDelta = @ + 1,
                                       ![c].result.success = TRUE]
        ELSE /\ calls' = [calls EXCEPT ![c].pc = "ret", ![c].line = 123,
                                       ![c].envFail = @ \/ ~ok,
                                       ![c].result.threw = TRUE]
             /\ UNCHANGED likeCount
  /\ wq' = Answered(c, FALSE)
  /\ UNCHANGED <<otherVars, feedVars, upload, auth, postOwner, likes, likedBy, comments, commentCount, likedPosts, likeDocs,
                 commentDocs, uiVars, ncalls, histVars>>

\* ------------------------------------------- addComment (commentService)
NewComment(videoId, postId, userId, text) ==
  [exists |-> TRUE, videoId |-> videoId, postId |-> postId, userId |-> userId,
   text |-> text, likes |-> 0, applied |-> [w \in Users |-> 0]]

\* query(comments, where('videoId', '==', videoId)): what a comments listener
\* of the post is sent
CommentsQuery(videoId) ==
  {i \in 1..Len(commentDocs) : commentDocs[i].exists /\ commentDocs[i].videoId = videoId}

\* addComment(videoId, commentText, userProfile) up to its first await
AddComment(u, currentUser, videoId, commentText) ==
  /\ ncalls < MaxCalls
  /\ ~LocalPending(u)
  /\ currentUser \in {u, NoUser}
  /\ LET c == FreeSlot
         refused == ~SignedIn(currentUser) \/ Trim(commentText) = <<>>
     IN /\ calls' = [calls EXCEPT ![c] =
             [IdleCall EXCEPT
                !.op = "addComment", !.user = currentUser, !.client = u,
                !.post = videoId, !.text = commentText,
                !.pc = IF refused THEN "ret" ELSE "addDoc",
                !.line = IF refused THEN 30 ELSE 0]]
        /\ wq' = IF refused THEN wq ELSE Issue(u, c)
  /\ ncalls' = ncalls + 1
  /\ UNCHANGED <<otherVars, feedVars, upload, auth, dbVars, uiVars, histVars>>

\* addDoc(collection(db, 'comments'), {videoId, text: commentText.trim(), userId, ...})
AddCommentAddDoc(c, ok) ==
  /\ calls[c].op = "addComment"
  /\ calls[c].pc = "addDoc"
  /\ Turn(c)
  /\ IF ok /\ CommentCreateAllowed(calls[c].user, calls[c].user)
     THEN /\ commentDocs' = Append(commentDocs,
                 NewComment(calls[c].post, 0, calls[c].user, Trim(calls[c].text)))
          /\ calls' = [calls EXCEPT ![c].pc = "updCount",
                                    ![c].created = Len(commentDocs) + 1]
          /\ wq' = Answered(c, TRUE)
     ELSE /\ calls' = [calls EXCEPT ![c].pc = "ret", ![c].line = 55,
                                    ![c].envFail = @ \/ ~ok]
          /\ wq' = Answered(c, FALSE)
          /\ UNCHANGED commentDocs
  /\ UNCHANGED <<otherVars, feedVars, upload, auth, postVars, likedPosts, likeDocs, uiVars, ncalls, histVars>>

\* updateDoc(videoRef, {comments: increment(1)})
AddCommentUpdateCount(c, ok) ==
  /\ calls[c].op = "addComment"
  /\ calls[c].pc = "updCount"
  /\ Turn(c)
  /\ LET p == calls[c].post
     IN IF ok /\ PostUpdateAllowed(calls[c].user, p, {"comments"})
        THEN /\ comments' = [comments EXCEPT ![p] = Increment(@, 1)]
             /\ calls' = [calls EXCEPT ![c].pc = "ret", ![c].line = 52,
                                       ![c].counted = TRUE,
                                       ![c].result.success = TRUE]
        ELSE /\ calls' = [calls EXCEPT ![c].pc = "ret", ![c].line = 55,
                                       ![c].envFail = @ \/ ~ok]
             /\ UNCHANGED comments
  /\ wq' = Answered(c, FALSE)
  /\ UNCHANGED <<otherVars, feedVars, upload, auth, postOwner, likes, likedBy, likeCount, commentCount, likedPosts, likeDocs,
                 commentDocs, uiVars, ncalls, histVars>>

\* --------------------------------------------- addComment (feedService)
\* addComment(postId, userId, text) up to its first await: no check of the text
FeedAddComment(u, currentUser, postId, text) ==
  /\ ncalls < MaxCalls
  /\ ~LocalPending(u)
  /\ currentUser \in {u, NoUser}
  /\ LET c == FreeSlot
     IN /\ calls' = [calls EXCEPT ![c] =
             [IdleCall EXCEPT
                !.op = "feedAddComment", !.user = currentUser, !.client = u,
                !.post = postId, !.text = text, !.pc = "addDoc"]]
        /\ wq' = Issue(u, c)
  /\ ncalls' = ncalls + 1
  /\ UNCHANGED <<otherVars, feedVars, upload, auth, dbVars, uiVars, histVars>>

\* addDoc(collection(db, 'comments'), {postId, userId, text, createdAt})
FeedAddCommentAddDoc(c, ok) ==
  /\ calls[c].op = "feedAddComment"
  /\ calls[c].pc = "addDoc"
  /\ Turn(c)
  /\ IF ok /\ CommentCreateAllowed(calls[c].user, calls[c].client)
     THEN /\ commentDocs' = Append(commentDocs,
                 NewComment(0, calls[c].post, calls[c].client, calls[c].text))
          /\ calls' = [calls EXCEPT ![c].pc = "updCount",
                                    ![c].created = Len(commentDocs) + 1]
          /\ wq' = Answered(c, TRUE)
     ELSE /\ calls' = [calls EXCEPT ![c].pc = "ret", ![c].line = 147,
                                    ![c].envFail = @ \/ ~ok,
                                    ![c].result.threw = TRUE]
          /\ wq' = Answered(c, FALSE)
          /\ UNCHANGED commentDocs
  /\ UNCHANGED <<otherVars, feedVars, upload, auth, postVars, likedPosts, likeDocs, uiVars, ncalls, histVars>>

\* updateDoc(postRef, {commentCount: increment(1)})
FeedAddCommentUpdateCount(c, ok) ==
  /\ calls[c].op = "feedAddComment"
  /\ calls[c].pc = "updCount"
  /\ Turn(c)
  /\ LET p == calls[c].post
     IN IF ok /\ PostUpdateAllowed(calls[c].user, p, {"commentCount"})
        THEN /\ commentCount' = [commentCount EXCEPT ![p] = Increment(@, 1)]
             /\ calls' = [calls EXCEPT ![c].pc = "ret", ![c].line = 144,
                                       ![c].counted = TRUE,
                                       ![c].result.success = TRUE]
        ELSE /\ calls' = [calls EXCEPT ![c].pc = "ret", ![c].line = 147,
                                       ![c].envFail = @ \/ ~ok,
                                       ![c].result.threw = TRUE]
             /\ UNCHANGED commentCount
  /\ wq' = Answered(c, FALSE)
  /\ UNCHANGED <<otherVars, feedVars, upload, auth, postOwner, likes, likedBy, likeCount, comments, likedPosts, likeDocs,
                 commentDocs, uiVars, ncalls, histVars>>

\* ------------------------------------ handlePostComment (CommentModal)
\* handlePostComment up to its first await.  While posting it returns at once
\* and changes nothing.
HandlePostComment(u, user, newComment) ==
  /\ ncalls < MaxCalls
  /\ ~LocalPending(u)
  /\ user \in {u, NoUser}
  /\ ~modal[u].posting
  /\ LET c == FreeSlot
         refused == user = NoUser \/ Trim(newComment) = <<>>
     IN /\ calls' = [calls EXCEPT ![c] =
             [IdleCall EXCEPT
                !.op = "postComment", !.user = user, !.client = u,
                !.post = player[u].post, !.text = newComment,
                !.commentCount = modal[u].commentCount,
                !.mounted = TRUE,
                !.pc = IF refused THEN "ret" ELSE "addDoc",
                !.line = IF refused THEN 155 ELSE 0]]
        /\ wq' = IF refused THEN wq ELSE Issue(u, c)
        /\ modal' = IF refused THEN modal ELSE [modal EXCEPT ![u].posting = TRUE]
  /\ ncalls' = ncalls + 1
  /\ UNCHANGED <<otherVars, feedVars, upload, auth, dbVars, player, histVars>>

\* addDoc(collection(db, 'comments'), {videoId, text: newComment.trim(), userId, ...})
PostCommentAddDoc(c, ok) ==
  /\ calls[c].op = "postComment"
  /\ calls[c].pc = "addDoc"
  /\ Turn(c)
  /\ IF ok /\ CommentCreateAllowed(calls[c].user, calls[c].user)
     THEN /\ commentDocs' = Append(commentDocs,
                 NewComment(calls[c].post, 0, calls[c].user, Trim(calls[c].text)))
          /\ calls' = [calls EXCEPT ![c].pc = "updCount",
                                    ![c].created = Len(commentDocs) + 1]
          /\ wq' = Answered(c, TRUE)
     ELSE /\ calls' = [calls EXCEPT ![c].pc = "ret", ![c].line = 186,
                                    ![c].envFail = @ \/ ~ok]
          /\ wq' = Answered(c, FALSE)
          /\ UNCHANGED commentDocs
  /\ UNCHANGED <<otherVars, feedVars, upload, auth, postVars, likedPosts, likeDocs, uiVars, ncalls, histVars>>

\* updateDoc(videoRef, {comments: increment(1)})
PostCommentUpdateCount(c, ok) ==
  /\ calls[c].op = "postComment"
  /\ calls[c].pc = "updCount"
  /\ Turn(c)
  /\ LET p == calls[c].post
     IN IF ok /\ PostUpdateAllowed(calls[c].user, p, {"comments"})
        THEN /\ comments' = [comments EXCEPT ![p] = Increment(@, 1)]
             /\ calls' = [calls EXCEPT ![c].pc = "ret", ![c].line = 183,
                                       ![c].counted = TRUE,
                                       ![c].result.success = TRUE]
        ELSE /\ calls' = [calls EXCEPT ![c].pc = "ret", ![c].line = 186,
                                       ![c].envFail = @ \/ ~ok]
             /\ UNCHANGED comments
  /\ wq' = Answered(c, FALSE)
  /\ UNCHANGED <<otherVars, feedVars, upload, auth, postOwner, likes, likedBy, likeCount, commentCount, likedPosts, likeDocs,
                 commentDocs, uiVars, ncalls, histVars>>

\* handlePostComment after its awaits: onCommentCountChange(commentCount + 1),
\* setPosting(false); in the catch block setPosting(false) alone.
PostCommentResume(c) ==
  /\ calls[c].op = "postComment"
  /\ calls[c].pc = "ret"
  /\ LET u == calls[c].client
     IN modal' = IF ~calls[c].mounted \/ calls[c].line = 155 THEN modal
                 ELSE IF calls[c].result.success
                 THEN [modal EXCEPT ![u].posting = FALSE,
                                    ![u].commentCount = calls[c].commentCount + 1]
                 ELSE [modal EXCEPT ![u].posting = FALSE]
  /\ calls' = [calls EXCEPT ![c] = IdleCall]
  /\ UNCHANGED <<otherVars, feedVars, upload, auth, dbVars, player, wq, ncalls, histVars>>

\* ---------------------------------------- deleteComment (commentService)
\* the post a comment document belongs to
CommentPost(commentId) ==
  IF commentDocs[commentId].videoId # 0 THEN commentDocs[commentId].videoId
  ELSE commentDocs[commentId].postId

\* deleteComment(commentId, videoId) up to its first await; the code never
\* reads the comment, videoId can name any post
DeleteComment(u, currentUser, commentId, videoId) ==
  /\ ncalls < MaxCalls
  /\ ~LocalPending(u)
  /\ currentUser \in {u, NoUser}
  /\ commentId \in 1..Len(commentDocs)
  /\ videoId \in Posts
  /\ LET c == FreeSlot
     IN /\ calls' = [calls EXCEPT ![c] =
             [IdleCall EXCEPT
                !.op = "deleteComment", !.user = currentUser, !.client = u,
                !.post = videoId, !.commentId = commentId,
                !.pc = IF ~SignedIn(currentUser) THEN "ret" ELSE "deleteDoc",
                !.line = IF ~SignedIn(currentUser) THEN 71 ELSE 0]]
        /\ wq' = IF ~SignedIn(currentUser) THEN wq ELSE Issue(u, c)
  /\ ncalls' = ncalls + 1
  /\ UNCHANGED <<otherVars, feedVars, upload, auth, dbVars, uiVars, histVars>>

\* deleteDoc(commentRef)
DeleteCommentDeleteDoc(c, ok) ==
  /\ calls[c].op = "deleteComment"
  /\ calls[c].pc = "deleteDoc"
  /\ Turn(c)
  /\ LET d == commentDocs[calls[c].commentId]
     IN IF ok /\ CommentDeleteAllowed(calls[c].user, d.exists, d.userId)
        THEN /\ commentDocs' = [commentDocs EXCEPT ![calls[c].commentId].exists = FALSE]
             /\ calls' = [calls EXCEPT ![c].pc = "updCount", ![c].removed = TRUE]
             /\ wq' = Answered(c, TRUE)
        ELSE /\ calls' = [calls EXCEPT ![c].pc = "ret", ![c].line = 89,
                                       ![c].envFail = @ \/ ~ok]
             /\ wq' = Answered(c, FALSE)
             /\ UNCHANGED commentDocs
  /\ UNCHANGED <<otherVars, feedVars, upload, auth, postVars, likedPosts, likeDocs, uiVars, ncalls, histVars>>

\* updateDoc(videoRef, {comments: increment(-1)})
DeleteCommentUpdateCount(c, ok) ==
  /\ calls[c].op = "deleteComment"
  /\ calls[c].pc = "updCount"
  /\ Turn(c)
  /\ LET p == calls[c].post
     IN IF ok /\ PostUpdateAllowed(calls[c].user, p, {"comments"})
        THEN /\ comments' = [comments EXCEPT ![p] = Increment(@, -1)]
             /\ calls' = [calls EXCEPT ![c].pc = "ret", ![c].line = 86,
                                       ![c].counted = TRUE, ![c].nDelta = @ - 1,
                                       ![c].result.success = TRUE]
        ELSE /\ calls' = [calls EXCEPT ![c].pc = "ret", ![c].line = 89,
                                       ![c].envFail = @ \/ ~ok]
             /\ UNCHANGED comments
  /\ wq' = Answered(c, FALSE)
  /\ UNCHANGED <<otherVars, feedVars, upload, auth, postOwner, likes, likedBy, likeCount, commentCount, likedPosts, likeDocs,
                 commentDocs, uiVars, ncalls, histVars>>

\* -------------------------------------- toggleCommentLike (commentService)
\* toggleCommentLike(commentId, isCurrentlyLiked) up to its await; the caller
\* says whether the comment is liked
ToggleCommentLike(u, currentUser, commentId, isCurrentlyLiked) ==
  /\ ncalls < MaxCalls
  /\ ~LocalPending(u)
  /\ currentUser \in {u, NoUser}
  /\ commentId \in 1..Len(commentDocs)
  /\ LET c == FreeSlot
     IN /\ calls' = [calls EXCEPT ![c] =
             [IdleCall EXCEPT
                !.op = "toggleCommentLike", !.user = currentUser, !.client = u,
                !.commentId = commentId, !.isCurrentlyLiked = isCurrentlyLiked,
                !.pc = IF ~SignedIn(currentUser) THEN "ret" ELSE "updLikes",
                !.line = IF ~SignedIn(currentUser) THEN 152 ELSE 0,
                !.result = [NoResult EXCEPT !.newLikeStatus = isCurrentlyLiked]]]
        /\ wq' = IF ~SignedIn(currentUser) THEN wq ELSE Issue(u, c)
  /\ ncalls' = ncalls + 1
  /\ UNCHANGED <<otherVars, feedVars, upload, auth, dbVars, uiVars, histVars>>

\* updateDoc(commentRef, {likes: increment(isCurrentlyLiked ? -1 : 1)})
CommentLikesWrite(c, ok) ==
  LET d == commentDocs[calls[c].commentId]
  IN IF ok /\ CommentUpdateAllowed(calls[c].user, d.exists, d.userId)
     THEN commentDocs' = [commentDocs EXCEPT
                            ![calls[c].commentId].likes = Increment(@, Delta(c)),
                            ![calls[c].commentId].applied[calls[c].user] = @ + Delta(c)]
     ELSE UNCHANGED commentDocs

ToggleCommentLikeUpdate(c, ok) ==
  /\ calls[c].op = "toggleCommentLike"
  /\ calls[c].pc = "updLikes"
  /\ Turn(c)
  /\ CommentLikesWrite(c, ok)
  /\ LET d == commentDocs[calls[c].commentId]
     IN calls' = IF ok /\ CommentUpdateAllowed(calls[c].user, d.exists, d.userId)
                 THEN [calls EXCEPT ![c].pc = "ret", ![c].line = 163,
                                    ![c].result.success = TRUE,
                                    ![c].result.newLikeStatus = NewLikeStatus(c)]
                 ELSE [calls EXCEPT ![c].pc = "ret", ![c].line = 166,
                                    ![c].envFail = @ \/ ~ok]
  /\ wq' = Answered(c, FALSE)
  /\ UNCHANGED <<otherVars, feedVars, upload, auth, postVars, likedPosts, likeDocs, uiVars, ncalls, histVars>>

\* ------------------------------------- handleLikeComment (CommentModal)
\* setLikedComments(prev => ({...prev, [commentId]: !prev[commentId]}))
ToggleLiked(likedComments, commentId) ==
  IF commentId \in likedComments THEN likedComments \ {commentId}
  ELSE likedComments \cup {commentId}

\* handleLikeComment(commentId) up to its await: the optimistic toggle, then
\* the write whose sign is taken from the rendered likedComments.  The
\* handler does not look at the signed-in user.
HandleLikeComment(u, user, commentId) ==
  /\ ncalls < MaxCalls
  /\ ~LocalPending(u)
  /\ user \in {u, NoUser}
  /\ commentId \in CommentsQuery(player[u].post)
  /\ LET c == FreeSlot
     IN /\ modal' = [modal EXCEPT ![u].likedComments = ToggleLiked(@, commentId)]
        /\ calls' = [calls EXCEPT ![c] =
             [IdleCall EXCEPT
                !.op = "likeComment", !.user = user, !.client = u,
                !.commentId = commentId,
                !.isCurrentlyLiked = (commentId \in modal[u].likedComments),
                !.mounted = TRUE, !.pc = "updLikes"]]
        /\ wq' = Issue(u, c)
  /\ ncalls' = ncalls + 1
  /\ UNCHANGED <<otherVars, feedVars, upload, auth, dbVars, player, histVars>>

\* updateDoc(commentRef, {likes: increment(likedComments[commentId] ? -1 : 1)})
LikeCommentUpdate(c, ok) ==
  /\ calls[c].op = "likeComment"
  /\ calls[c].pc = "updLikes"
  /\ Turn(c)
  /\ CommentLikesWrite(c, ok)
  /\ LET d == commentDocs[calls[c].commentId]
     IN calls' = IF ok /\ CommentUpdateAllowed(calls[c].user, d.exists, d.userId)
                 THEN [calls EXCEPT ![c].pc = "ret", ![c].line = 202,
                                    ![c].result.success = TRUE]
                 ELSE [calls EXCEPT ![c].pc = "ret", ![c].line = 203,
                                    ![c].envFail = @ \/ ~ok]
  /\ wq' = Answered(c, FALSE)
  /\ UNCHANGED <<otherVars, feedVars, upload, auth, postVars, likedPosts, likeDocs, uiVars, ncalls, histVars>>

\* handleLikeComment after the await: the catch block toggles the entry back
LikeCommentResume(c) ==
  /\ calls[c].op = "likeComment"
  /\ calls[c].pc = "ret"
  /\ LET u == calls[c].client
     IN modal' = IF calls[c].mounted /\ ~calls[c].result.success
                 THEN [modal EXCEPT ![u].likedComments = ToggleLiked(@, calls[c].commentId)]
                 ELSE modal
  /\ calls' = [calls EXCEPT ![c] = IdleCall]
  /\ UNCHANGED <<otherVars, feedVars, upload, auth, dbVars, player, wq, ncalls, histVars>>

\* ------------------------------------------------ collections: rules
\* match /collections/{collectionId}: allow create
CollectionCreateAllowed(uid, createdBy) == uid # NoUser /\ createdBy = uid

\* match /collections/{collectionId}: allow update (the creator, or anyone
\* signed in who changes itemCount alone)
CollectionUpdateAllowed(uid, k, keys) ==
  /\ uid # NoUser
  /\ \/ collDocs[k].createdBy = uid
     \/ keys \subseteq {"itemCount"}

\* ------------------------------------------------ handleUpload (upload screen)
\* query(collections, where('createdBy', '==', uid), where('title', '==', title))
CollectionsQuery(uid, title) ==
  {k \in 1..Len(collDocs) : collDocs[k].createdBy = uid /\ collDocs[k].title = title}

\* the upload screen of a device is busy (loading) with an upload
Uploading(d) ==
  \E c \in CallIds : calls[c].op = "upload" /\ calls[c].client = d /\ calls[c].pc # "idle"

\* const selectedCollectionName =
\*   collection === 'New Collection...' ? customCollection : collection
SelectedCollectionName(c) ==
  IF calls[c].collection = NewCollection THEN calls[c].customCollection
  ELSE calls[c].collection

\* handleUpload on device d, where user a is signed in, up to the start of the
\* video upload: setLoading(true).  collection is the chosen option:
\* 'New Collection...' with a typed name, or one of a's titles.
HandleUpload(d, a, collection, customCollection) ==
  /\ ncalls < MaxCalls
  /\ ~Uploading(d)
  /\ \/ collection = NewCollection /\ customCollection \in Names
     \/ /\ CollectionsQuery(a, collection) # {}
        /\ customCollection = <<>>
  /\ LET c == FreeSlot
     IN calls' = [calls EXCEPT ![c] =
          [IdleCall EXCEPT
             !.op = "upload", !.user = a, !.client = d,
             !.collection = collection, !.customCollection = customCollection,
             !.loading = TRUE, !.pc = "video"]]
  /\ ncalls' = ncalls + 1
  /\ UNCHANGED <<otherVars, feedVars, upload, auth, interactVars>>

\* addDoc(collections, {title: customCollection.trim(), createdBy, itemCount: 1})
UploadAddCollection(c, ok) ==
  /\ calls[c].op = "upload"
  /\ calls[c].pc = "addColl"
  /\ IF ok /\ CollectionCreateAllowed(calls[c].user, calls[c].user)
     THEN /\ collDocs' = Append(collDocs,
                 [title |-> Trim(calls[c].customCollection), createdBy |-> calls[c].user,
                  itemCount |-> 1, uploads |-> 1])
          /\ calls' = [calls EXCEPT ![c].pc = "addPost", ![c].collId = Len(collDocs) + 1]
     ELSE /\ calls' = [calls EXCEPT ![c].pc = "ret", ![c].line = 241,
                                    ![c].envFail = @ \/ ~ok, ![c].result.threw = TRUE]
          /\ UNCHANGED collDocs
  /\ UNCHANGED <<clips, ncalls, feedVars, upload, auth, interactVars>>

\* where the upload task of a medium leads: its completion callback, or its
\* error callback, which ends the attempt
AlwaysCompleted(ok, next) == next
AfterUploadTask(ok, next) == IF ok THEN next ELSE "ret"

\* videoUploadTask ends: completed (ok), or its error callback runs:
\* setLoading(false) and the alert 'Upload Failed'
UploadVideo(c, ok) ==
  /\ calls[c].op = "upload"
  /\ calls[c].pc = "video"
  /\ calls' = [calls EXCEPT
       ![c].pc = AfterUploadTask(ok, "thumb"),
       ![c].video = IF ok THEN "done" ELSE "failed",
       ![c].line = IF ok THEN 204 ELSE 200,
       ![c].loading = ok,
       ![c].alert = IF ok THEN "none" ELSE "Upload Failed"]
  /\ UNCHANGED <<otherVars, ncalls, feedVars, upload, auth, interactVars>>

\* thumbnailUploadTask ends: completed (ok), or its error callback runs:
\* setLoading(false) and the alert 'Upload Partially Failed'
UploadThumbnail(c, ok) ==
  /\ calls[c].op = "upload"
  /\ calls[c].pc = "thumb"
  /\ calls' = [calls EXCEPT
       ![c].pc = AfterUploadTask(ok, IF calls[c].collection = NewCollection THEN "addColl"
                                    ELSE "query"),
       ![c].thumb = IF ok THEN "done" ELSE "failed",
       ![c].line = IF ok THEN 231 ELSE 227,
       ![c].loading = ok,
       ![c].alert = IF ok THEN "none" ELSE "Upload Partially Failed"]
  /\ UNCHANGED <<otherVars, ncalls, feedVars, upload, auth, interactVars>>

\* const querySnapshot = await getDocs(q); querySnapshot.docs[0]
UploadQuery(c, k) ==
  /\ calls[c].op = "upload"
  /\ calls[c].pc = "query"
  /\ LET found == CollectionsQuery(calls[c].user, calls[c].collection)
     IN IF found = {}
        THEN /\ k = 0
             /\ calls' = [calls EXCEPT ![c].pc = "addPost"]
        ELSE /\ k \in found
             /\ calls' = [calls EXCEPT ![c].pc = "setDoc", ![c].collId = k,
                                       ![c].itemCount = collDocs[k].itemCount]
  /\ UNCHANGED <<otherVars, ncalls, feedVars, upload, auth, interactVars>>

\* (collectionData.itemCount || 0) + 1
SameItemCount(itemCount) == itemCount
NextItemCount(itemCount) == itemCount + 1

\* setDoc(doc(collections, id), {...collectionData, itemCount: (itemCount || 0) + 1})
UploadSetDoc(c, ok) ==
  /\ calls[c].op = "upload"
  /\ calls[c].pc = "setDoc"
  /\ LET k == calls[c].collId
     IN IF ok /\ CollectionUpdateAllowed(calls[c].user, k, {"itemCount"})
        THEN /\ collDocs' = [collDocs EXCEPT ![k].itemCount = NextItemCount(calls[c].itemCount),
                                             ![k].uploads = @ + 1]
             /\ calls' = [calls EXCEPT ![c].pc = "addPost"]
        ELSE /\ calls' = [calls EXCEPT ![c].pc = "ret", ![c].line = 263,
                                       ![c].envFail = @ \/ ~ok, ![c].result.threw = TRUE]
             /\ UNCHANGED collDocs
  /\ UNCHANGED <<clips, ncalls, feedVars, upload, auth, interactVars>>

\* addDoc(posts, {userId, collection: selectedCollectionName, likes: 0, comments: 0})
UploadAddPost(c, ok) ==
  /\ calls[c].op = "upload"
  /\ calls[c].pc = "addPost"
  /\ IF ok
     THEN /\ clips' = Append(clips, [userId |-> calls[c].user,
                                     collection |-> SelectedCollectionName(c)])
          /\ calls' = [calls EXCEPT ![c].pc = "ret", ![c].line = 287,
                                    ![c].created = Len(clips) + 1,
                                    ![c].result.success = TRUE,
                                    ![c].loading = FALSE, ![c].alert = "Upload Success"]
     ELSE /\ calls' = [calls EXCEPT ![c].pc = "ret", ![c].line = 285, ![c].envFail = TRUE,
                                    ![c].result.threw = TRUE]
          /\ UNCHANGED clips
  /\ UNCHANGED <<collDocs, ncalls, feedVars, upload, auth, interactVars>>

\* ------------------------- handleCreateCollection (create-collection screen)
\* the create-collection screen of a device is busy (loading)
Creating(d) ==
  \E c \in CallIds : calls[c].op = "createCollection" /\ calls[c].client = d
                       /\ calls[c].pc # "idle"

\* handleCreateCollection on device d, where user a is signed in, up to addDoc
HandleCreateCollection(d, a, title) ==
  /\ ncalls < MaxCalls
  /\ ~Creating(d)
  /\ Trim(title) # <<>>
  /\ LET c == FreeSlot
     IN calls' = [calls EXCEPT ![c] =
          [IdleCall EXCEPT !.op = "createCollection", !.user = a, !.client = d,
                           !.text = title, !.pc = "addColl"]]
  /\ ncalls' = ncalls + 1
  /\ UNCHANGED <<otherVars, feedVars, upload, auth, interactVars>>

\* addDoc(collectionsRef, {title: title.trim(), createdBy, itemCount: 0})
CreateCollectionAddDoc(c, ok) ==
  /\ calls[c].op = "createCollection"
  /\ calls[c].pc = "addColl"
  /\ IF ok /\ CollectionCreateAllowed(calls[c].user, calls[c].user)
     THEN /\ collDocs' = Append(collDocs,
                 [title |-> Trim(calls[c].text), createdBy |-> calls[c].user,
                  itemCount |-> 0, uploads |-> 0])
          /\ calls' = [calls EXCEPT ![c].pc = "ret", ![c].line = 131,
                                    ![c].collId = Len(collDocs) + 1,
                                    ![c].result.success = TRUE]
     ELSE /\ calls' = [calls EXCEPT ![c].pc = "ret", ![c].line = 139,
                                    ![c].envFail = @ \/ ~ok]
          /\ UNCHANGED collDocs
  /\ UNCHANGED <<clips, ncalls, feedVars, upload, auth, interactVars>>

\* --------------------------- handleAddClipsToCollection (collection screen)
\* fetchAvailableClips: the user's posts whose collection is not this title
AvailableClips(uid, title) ==
  {i \in 1..Len(clips) : clips[i].userId = uid /\ clips[i].collection # title}

\* the collection document of its owner that a clip's collection field names
\* (0: none)
CollectionOf(i) ==
  LET found == CollectionsQuery(clips[i].userId, clips[i].collection)
  IN IF found = {} THEN 0 ELSE CHOOSE k \in found : \A j \in found : k <= j

\* the add-clips modal of a device is busy (addingClips)
AddingClips(d) ==
  \E c \in CallIds : calls[c].op = "addClips" /\ calls[c].client = d /\ calls[c].pc # "idle"

\* handleAddClipsToCollection on device d of user a, on the screen of a's
\* collection k with the clips of selectedClips ticked, up to its first write
HandleAddClipsToCollection(d, a, k, selectedClips) ==
  /\ ncalls < MaxCalls
  /\ ~AddingClips(d)
  /\ k \in 1..Len(collDocs)
  /\ collDocs[k].createdBy = a
  /\ selectedClips # {}
  /\ selectedClips \subseteq AvailableClips(a, collDocs[k].title)
  /\ LET c == FreeSlot
         first == CHOOSE i \in selectedClips : \A j \in selectedClips : i <= j
     IN calls' = [calls EXCEPT ![c] =
          [IdleCall EXCEPT
             !.op = "addClips", !.user = a, !.client = d, !.collId = k,
             !.collection = collDocs[k].title, !.selectedClips = selectedClips,
             !.fromColl = CollectionOf(first),
             !.fromCount = IF CollectionOf(first) = 0 THEN 0
                           ELSE collDocs[CollectionOf(first)].itemCount,
             !.toCount = collDocs[k].itemCount,
             !.pc = "updatePost"]]
  /\ ncalls' = ncalls + 1
  /\ UNCHANGED <<otherVars, feedVars, upload, auth, interactVars>>

\* for (const clipId of selectedClips) await updateDoc(postRef, {collection: title})
AddClipsUpdatePost(c, ok) ==
  /\ calls[c].op = "addClips"
  /\ calls[c].pc = "updatePost"
  /\ LET rest == calls[c].selectedClips \ calls[c].moved
         i == CHOOSE x \in rest : \A y \in rest : x <= y
     IN IF ok /\ calls[c].user # NoUser /\ clips[i].userId = calls[c].user
        THEN /\ clips' = [clips EXCEPT ![i].collection = calls[c].collection]
             /\ calls' = [calls EXCEPT ![c].moved = @ \cup {i},
                            ![c].pc = IF rest = {i} THEN "updateCount" ELSE "updatePost"]
        ELSE /\ calls' = [calls EXCEPT ![c].pc = "ret", ![c].line = 899,
                                       ![c].envFail = @ \/ ~ok]
             /\ UNCHANGED clips
  /\ UNCHANGED <<collDocs, ncalls, feedVars, upload, auth, interactVars>>

\* updateDoc(collectionRef, {itemCount: increment(selectedClips.length)})
AddClipsUpdateCount(c, ok) ==
  /\ calls[c].op = "addClips"
  /\ calls[c].pc = "updateCount"
  /\ LET k == calls[c].collId
     IN IF ok /\ CollectionUpdateAllowed(calls[c].user, k, {"itemCount"})
        THEN /\ collDocs' = [collDocs EXCEPT
                               ![k].itemCount = Increment(@, Cardinality(calls[c].selectedClips))]
             /\ calls' = [calls EXCEPT ![c].pc = "ret", ![c].line = 897,
                                       ![c].result.success = TRUE]
        ELSE /\ calls' = [calls EXCEPT ![c].pc = "ret", ![c].line = 899,
                                       ![c].envFail = @ \/ ~ok]
             /\ UNCHANGED collDocs
  /\ UNCHANGED <<clips, ncalls, feedVars, upload, auth, interactVars>>

\* the handler of an upload, a collection creation or an add-clips is over, and
\* its screen is left
Finish(c) ==
  /\ calls[c].op \in {"upload", "createCollection", "addClips"}
  /\ calls[c].pc = "ret"
  /\ calls' = [calls EXCEPT ![c] = IdleCall]
  /\ UNCHANGED <<otherVars, ncalls, feedVars, upload, auth, interactVars>>

\* ------------------------------------------ direct writes under the rules
\* A client signed in as uid sends updateDoc(posts/p, data) of its own making;
\* keys are the fields whose value differs from the stored one.  The rules
\* decide alone: no code of the app stands between a client and the database.
UpdatePost(uid, p, keys, userId, n) ==
  /\ ncalls < MaxCalls
  /\ keys # {}
  /\ keys \subseteq {"userId", "likes", "comments"}
  /\ "userId" \in keys => userId # postOwner[p]
  /\ "likes" \in keys => n # likes[p]
  /\ "comments" \in keys => n # comments[p]
  /\ PostUpdateAllowed(uid, p, keys)
  /\ postOwner' = IF "userId" \in keys THEN [postOwner EXCEPT ![p] = userId] ELSE postOwner
  /\ likes' = IF "likes" \in keys THEN [likes EXCEPT ![p] = n] ELSE likes
  /\ comments' = IF "comments" \in keys THEN [comments EXCEPT ![p] = n] ELSE comments
  /\ likeHist' = IF "likes" \in keys THEN Spoil(p) ELSE likeHist
  /\ ncalls' = ncalls + 1
  /\ UNCHANGED <<otherVars, feedVars, upload, auth, likedBy, likeCount, commentCount, likedPosts, likeDocs,
                 commentDocs, uiVars, calls, wq, seq>>

\* the caller of a service function receives its result (or its exception)
Return(c) ==
  /\ calls[c].op \in {"likePost", "addComment", "feedAddComment", "deleteComment",
                      "toggleCommentLike"}
  /\ calls[c].pc = "ret"
  /\ calls' = [calls EXCEPT ![c] = IdleCall]
  /\ UNCHANGED <<otherVars, feedVars, upload, auth, dbVars, uiVars, wq, ncalls, histVars>>

\* fetchCollectionData of the collection screens, for collection document k:
\* query(postsRef, where('collection', '==', collectionDocData.title)), the
\* posts setPosts receives
CollectionPosts(k) ==
  {i \in 1..Len(clips) : clips[i].collection = collDocs[k].title}

\* ------------------------------------------------- Cloud Storage rules
\* contentType.matches(type + '/.*'): the whole value matches, so it begins
\* with the type and a slash
Matches(contentType, type) ==
  /\ Len(contentType) >= 2
  /\ contentType[1] = type
  /\ contentType[2] = "/"

\* match /profilePictures/{userId}/{fileName}: allow write
ProfilePictureWriteAllowed(uid, userId, size, contentType) ==
  /\ uid # NoUser
  /\ uid = userId
  /\ size < 5 * 1024 * 1024
  /\ Matches(contentType, "image")

\* match /thumbnails/{userId}/{fileName}: allow write
ThumbnailWriteAllowed(uid, userId, size, contentType) ==
  /\ uid # NoUser
  /\ uid = userId
  /\ size < 2 * 1024 * 1024
  /\ Matches(contentType, "image")

\* match /clips/{userId}/{fileName}: allow write
ClipWriteAllowed(uid, userId, size, contentType) ==
  /\ uid # NoUser
  /\ uid = userId
  /\ size < 50 * 1024 * 1024
  /\ Matches(contentType, "video")

\* match /collections/{userId}/{fileName}: allow write
CollectionCoverWriteAllowed(uid, userId, size, contentType) ==
  /\ uid # NoUser
  /\ uid = userId
  /\ size < 5 * 1024 * 1024
  /\ Matches(contentType, "image")

\* the rules' answer to a write of /{folder}/{userId}/{fileName}; a path no
\* match statement covers is denied
StorageWriteAllowed(uid, folder, userId, size, contentType) ==
  CASE folder = "profilePictures" -> ProfilePictureWriteAllowed(uid, userId, size, contentType)
    [] folder = "thumbnails" -> ThumbnailWriteAllowed(uid, userId, size, contentType)
    [] folder = "clips" -> ClipWriteAllowed(uid, userId, size, contentType)
    [] folder = "collections" -> CollectionCoverWriteAllowed(uid, userId, size, contentType)
    [] OTHER -> FALSE

\* a client signed in as uid (or not signed in) uploads a file of the given
\* size and content type to /{folder}/{userId}/{fileName}
StorageWrite(uid, folder, userId, size, contentType) ==
  /\ upload' = [uid |-> uid, folder |-> folder, userId |-> userId, size |-> size,
                contentType |-> contentType, sent |-> TRUE,
                allowed |-> StorageWriteAllowed(uid, folder, userId, size, contentType)]
  /\ UNCHANGED <<feedVars, otherVars, calls, ncalls, interactVars, auth>>

\* ----------------------------------------------------- FeedScreen (feed)
\* query(posts, orderBy('timestamp', 'desc'), limit(limitCount)): the posts get
\* their timestamp from the server when they are created, so the newest post
\* is the last one of clips
PostsQuery(limitCount) ==
  LET n == Len(clips)
      m == IF n < limitCount THEN n ELSE limitCount
  IN [i \in 1..m |-> n + 1 - i]

\* the userIds of a snapshot's documents
UserIds(docs) == {clips[docs[i]].userId : i \in 1..Len(docs)}

\* the handler run the next snapshot starts
NextHandler == CHOOSE h \in HandlerIds :
                 /\ handlers[h].pc = "idle"
                 /\ \A g \in HandlerIds : handlers[g].pc = "idle" => h <= g

\* setFeedData(posts) of handler run h, with the documents docs of a snapshot
\* taken when n posts existed, called for subscription sub.  React drops the
\* state update of an unmounted component.
SetFeedData(h, docs, n, sub) ==
  IF feed.mounted
  THEN [feed EXCEPT !.feedData = docs, !.fromVer = h, !.fromPosts = n,
                    !.late = @ \/ sub # feed.sub \/ ~feed.active]
  ELSE feed

\* setUserCache(prev => ({...prev, [userId]: userData})) for the users found:
\* a new object each time, so the effect depending on userCache runs again
SetUserCache(f, found) ==
  IF f.mounted /\ found # {}
  THEN [f EXCEPT !.userCache = @ \cup found, !.changed = TRUE]
  ELSE f

\* The effect of the feed screen runs: at mount, and again whenever userCache
\* has changed.  The cleanup of the previous run unsubscribes its listener;
\* fetchAllPosts subscribes a new one, whose handler closes over the current
\* userCache.
FeedEffect ==
  /\ feed.sub < MaxSubs
  /\ \/ feed.sub = 0
     \/ feed.mounted /\ feed.changed
  /\ feed' = [feed EXCEPT !.mounted = TRUE, !.sub = @ + 1, !.active = TRUE,
                          !.closure = feed.userCache, !.changed = FALSE,
                          !.delivered = -1]
  /\ UNCHANGED <<upload, auth, handlers, otherVars, calls, ncalls, interactVars>>

\* the feed screen is unmounted: the cleanup unsubscribes the listener
FeedUnmount ==
  /\ feed.mounted
  /\ feed' = [feed EXCEPT !.mounted = FALSE, !.active = FALSE]
  /\ UNCHANGED <<upload, auth, handlers, otherVars, calls, ncalls, interactVars>>

\* Firestore delivers a snapshot of the query to the subscribed listener: the
\* first one, and one after each change of the result.  The handler runs up to
\* its first await of the network: with an empty snapshot, or with every user
\* in the closure's userCache, it runs to its end.
Snapshot ==
  /\ feed.active
  /\ feed.delivered # Len(clips)
  /\ \E h \in HandlerIds : handlers[h].pc = "idle"
  /\ LET h == NextHandler
         docs == PostsQuery(FeedLimit)
         n == Len(clips)
         f == [feed EXCEPT !.delivered = n]
     IN IF docs = <<>> \/ UserIds(docs) \subseteq feed.closure
        THEN /\ feed' = [SetFeedData(h, docs, n, feed.sub) EXCEPT !.delivered = n]
             /\ handlers' = [handlers EXCEPT ![h] =
                  [pc |-> "done", sub |-> feed.sub, closure |-> feed.closure,
                   docs |-> docs, n |-> n]]
        ELSE /\ feed' = f
             /\ handlers' = [handlers EXCEPT ![h] =
                  [pc |-> "prefetch", sub |-> feed.sub, closure |-> feed.closure,
                   docs |-> docs, n |-> n]]
  /\ UNCHANGED <<upload, auth, otherVars, calls, ncalls, interactVars>>

\* await Promise.all(userFetchPromises) of handler run h returns: getUserData
\* has read the user documents missing from the closure's userCache (ok: they
\* exist and the reads succeeded) and has cached them
HandlerPrefetched(h, ok) ==
  /\ handlers[h].pc = "prefetch"
  /\ feed' = SetUserCache(feed, IF ok THEN UserIds(handlers[h].docs) \ handlers[h].closure
                                ELSE {})
  /\ handlers' = [handlers EXCEPT ![h].pc = "transform"]
  /\ UNCHANGED <<upload, auth, otherVars, calls, ncalls, interactVars>>

\* await Promise.all(docs.map(...)) of handler run h returns: getUserData still
\* sees the closure's userCache, so it has read the same user documents again;
\* then setFeedData(posts)
HandlerTransformed(h, ok) ==
  /\ handlers[h].pc = "transform"
  /\ feed' = SetUserCache(SetFeedData(h, handlers[h].docs, handlers[h].n, handlers[h].sub),
                          IF ok THEN UserIds(handlers[h].docs) \ handlers[h].closure
                          ELSE {})
  /\ handlers' = [handlers EXCEPT ![h].pc = "done"]
  /\ UNCHANGED <<upload, auth, otherVars, calls, ncalls, interactVars>>

\* ------------------------------------------------------------------ Next
\* ------------------------------------------------------------ AuthProvider
\* {loading ? <Loading /> : children}; of the children, AppLayout shows the
\* Stack when session is set and redirects to /sign-in otherwise, and the
\* sign-in and sign-up screens redirect to /(auth) when session is set
Rendered ==
  IF auth.loading THEN "Loading" ELSE IF auth.session THEN "Stack" ELSE "SignIn"

\* fetchUserProfile(userId): setUserProfile from the user document; an error
\* of getDoc is caught and logged inside
FetchUserProfile(a, userId, ok) == [a EXCEPT !.userProfile = IF ok THEN userId ELSE @]

\* the listener of onAuthStateChanged up to its await: setUser, setSession,
\* and with no user setUserProfile(null) and setLoading(false)
AuthStateChanged(a, currentUser) ==
  IF currentUser # NoUser
  THEN [a EXCEPT !.currentUser = currentUser, !.started = TRUE,
                 !.user = currentUser, !.session = TRUE, !.lastEvent = currentUser,
                 !.runs[currentUser] = @ + 1, !.signedOut = FALSE]
  ELSE [a EXCEPT !.currentUser = NoUser, !.started = TRUE,
                 !.user = NoUser, !.session = FALSE, !.lastEvent = NoUser,
                 !.userProfile = NoUser, !.loading = FALSE]

\* the first auth-state event after the listener is registered: the user the
\* SDK has kept from an earlier session, or none
AuthStart(persisted) ==
  /\ ~auth.started
  /\ auth' = AuthStateChanged(auth, persisted)
  /\ UNCHANGED <<otherVars, feedVars, upload, calls, ncalls, interactVars>>

\* the listener after await fetchUserProfile(currentUser.uid): setLoading(false)
ListenerFetched(u, ok) ==
  /\ auth.runs[u] > 0
  /\ auth' = [FetchUserProfile(auth, u, ok) EXCEPT !.runs[u] = @ - 1, !.loading = FALSE]
  /\ UNCHANGED <<otherVars, feedVars, upload, calls, ncalls, interactVars>>

\* catch: throw new Error(errorMessage); finally: setLoading(false)
Rethrown(c, ln) ==
  [calls[c] EXCEPT !.pc = "ret", !.line = ln, !.envFail = TRUE, !.result.threw = TRUE]

\* signin(email, password) of the sign-in screen, up to its first await
Signin(u) ==
  /\ ncalls < MaxCalls
  /\ Rendered = "SignIn"
  /\ calls' = [calls EXCEPT ![FreeSlot] =
                 [IdleCall EXCEPT !.op = "signin", !.user = u, !.pc = "signIn"]]
  /\ auth' = [auth EXCEPT !.loading = TRUE]
  /\ ncalls' = ncalls + 1
  /\ UNCHANGED <<otherVars, feedVars, upload, interactVars>>

\* await signInWithEmailAndPassword(auth, email, password); the SDK tells the
\* listener of the new user before the call goes on
SigninSignIn(c, ok) ==
  /\ calls[c].op = "signin"
  /\ calls[c].pc = "signIn"
  /\ IF ok
     THEN /\ auth' = AuthStateChanged(auth, calls[c].user)
          /\ calls' = [calls EXCEPT ![c].pc = "fetch"]
     ELSE /\ auth' = [auth EXCEPT !.loading = FALSE]
          /\ calls' = [calls EXCEPT ![c] = Rethrown(c, 114)]
  /\ UNCHANGED <<otherVars, feedVars, upload, ncalls, interactVars>>

\* signup(email, password, username) of the sign-up screen, up to its first
\* await; valid: email, password and username are all given
Signup(u, valid) ==
  /\ ncalls < MaxCalls
  /\ Rendered = "SignIn"
  /\ calls' = [calls EXCEPT ![FreeSlot] =
                 IF valid
                 THEN [IdleCall EXCEPT !.op = "signup", !.user = u, !.pc = "create"]
                 ELSE [IdleCall EXCEPT !.op = "signup", !.user = u, !.pc = "ret",
                                       !.line = 138, !.result.threw = TRUE]]
  /\ auth' = [auth EXCEPT !.loading = valid]
  /\ ncalls' = ncalls + 1
  /\ UNCHANGED <<otherVars, feedVars, upload, interactVars>>

\* await createUserWithEmailAndPassword(auth, email, password)
SignupCreate(c, ok) ==
  /\ calls[c].op = "signup"
  /\ calls[c].pc = "create"
  /\ IF ok
     THEN /\ auth' = AuthStateChanged(auth, calls[c].user)
          /\ calls' = [calls EXCEPT ![c].pc = "setDoc"]
     ELSE /\ auth' = [auth EXCEPT !.loading = FALSE]
          /\ calls' = [calls EXCEPT ![c] = Rethrown(c, 161)]
  /\ UNCHANGED <<otherVars, feedVars, upload, ncalls, interactVars>>

\* await setDoc(doc(db, 'users', user.uid), {...})
SignupSetDoc(c, ok) ==
  /\ calls[c].op = "signup"
  /\ calls[c].pc = "setDoc"
  /\ IF ok /\ UserUpdateAllowed(auth.currentUser, calls[c].user)
     THEN /\ calls' = [calls EXCEPT ![c].pc = "fetch"]
          /\ UNCHANGED auth
     ELSE /\ auth' = [auth EXCEPT !.loading = FALSE]
          /\ calls' = [calls EXCEPT ![c] = Rethrown(c, 161)]
  /\ UNCHANGED <<otherVars, feedVars, upload, ncalls, interactVars>>

\* signin and signup: await fetchUserProfile(uid), then finally setLoading(false)
AuthFetched(c, ok) ==
  /\ calls[c].op \in {"signin", "signup"}
  /\ calls[c].pc = "fetch"
  /\ auth' = [FetchUserProfile(auth, calls[c].user, ok) EXCEPT !.loading = FALSE]
  /\ calls' = [calls EXCEPT ![c].pc = "ret", ![c].envFail = ~ok,
                            ![c].line = IF calls[c].op = "signin" THEN 116 ELSE 163]
  /\ UNCHANGED <<otherVars, feedVars, upload, ncalls, interactVars>>

\* signout() of the SignOutButton, up to its await
Signout ==
  /\ ncalls < MaxCalls
  /\ Rendered = "Stack"
  /\ calls' = [calls EXCEPT ![FreeSlot] =
                 [IdleCall EXCEPT !.op = "signout", !.user = auth.user, !.pc = "signOut"]]
  /\ auth' = [auth EXCEPT !.loading = TRUE]
  /\ ncalls' = ncalls + 1
  /\ UNCHANGED <<otherVars, feedVars, upload, interactVars>>

\* await signOut(auth), with the listener told that nobody is signed in; then
\* setUserProfile(null), finally setLoading(false)
SignoutSignOut(c, ok) ==
  /\ calls[c].op = "signout"
  /\ calls[c].pc = "signOut"
  /\ IF ok
     THEN /\ auth' = [AuthStateChanged(auth, NoUser) EXCEPT
                        !.userProfile = NoUser, !.loading = FALSE, !.signedOut = TRUE]
          /\ calls' = [calls EXCEPT ![c].pc = "ret", ![c].line = 129,
                                    ![c].result.success = TRUE]
     ELSE /\ auth' = [auth EXCEPT !.loading = FALSE]
          /\ calls' = [calls EXCEPT ![c] = Rethrown(c, 127)]
  /\ UNCHANGED <<otherVars, feedVars, upload, ncalls, interactVars>>

\* the screen that awaited the call goes on: its alert, its setLoading(false)
AuthReturn(c) ==
  /\ calls[c].op \in {"signin", "signup", "signout"}
  /\ calls[c].pc = "ret"
  /\ calls' = [calls EXCEPT ![c] = IdleCall]
  /\ UNCHANGED <<otherVars, feedVars, upload, auth, ncalls, interactVars>>

NextAuth ==
  \/ \E p \in Users \cup {NoUser} : AuthStart(p)
  \/ \E u \in Users, ok \in BOOLEAN : ListenerFetched(u, ok)
  \/ \E u \in Users : Signin(u)
  \/ \E c \in CallIds, ok \in BOOLEAN : SigninSignIn(c, ok)
  \/ \E u \in Users, valid \in BOOLEAN : Signup(u, valid)
  \/ \E c \in CallIds, ok \in BOOLEAN : SignupCreate(c, ok)
  \/ \E c \in CallIds, ok \in BOOLEAN : SignupSetDoc(c, ok)
  \/ \E c \in CallIds, ok \in BOOLEAN : AuthFetched(c, ok)
  \/ Signout
  \/ \E c \in CallIds, ok \in BOOLEAN : SignoutSignOut(c, ok)
  \/ \E c \in CallIds : AuthReturn(c)

\* The AuthProvider of one device with its screens.
SpecAuth == InitFresh /\ [][NextAuth]_vars

ToggleStep ==
  \/ \E c \in CallIds, ok \in BOOLEAN : PostWrite(c, ok)
  \/ \E c \in CallIds, ok \in BOOLEAN : UserWrite(c, ok)
  \/ \E c \in CallIds, ok \in BOOLEAN : FallbackPostWrite(c, ok)
  \/ \E c \in CallIds, ok \in BOOLEAN : FallbackUserWrite(c, ok)
  \/ \E c \in CallIds : Resume(c)

LikePostStep ==
  \/ \E c \in CallIds : LikeQuery(c)
  \/ \E c \in CallIds, ok \in BOOLEAN : LikeAddDoc(c, ok)
  \/ \E c \in CallIds, ok \in BOOLEAN : LikeUpdateCount(c, ok)
  \/ \E c \in CallIds : Return(c)

CommentStep ==
  \/ \E c \in CallIds, ok \in BOOLEAN : AddCommentAddDoc(c, ok)
  \/ \E c \in CallIds, ok \in BOOLEAN : AddCommentUpdateCount(c, ok)
  \/ \E c \in CallIds, ok \in BOOLEAN : FeedAddCommentAddDoc(c, ok)
  \/ \E c \in CallIds, ok \in BOOLEAN : FeedAddCommentUpdateCount(c, ok)
  \/ \E c \in CallIds, ok \in BOOLEAN : PostCommentAddDoc(c, ok)
  \/ \E c \in CallIds, ok \in BOOLEAN : PostCommentUpdateCount(c, ok)
  \/ \E c \in CallIds : PostCommentResume(c)
  \/ \E c \in CallIds : Return(c)

NextComment ==
  \/ \E u \in Users, a \in Users \cup {NoUser}, p \in Shown, t \in Texts : AddComment(u, a, p, t)
  \/ \E u \in Users, a \in Users \cup {NoUser}, p \in Shown, t \in Texts : FeedAddComment(u, a, p, t)
  \/ \E u \in Users, a \in Users \cup {NoUser}, t \in Texts : HandlePostComment(u, a, t)
  \/ CommentStep

DeleteStep ==
  \/ \E c \in CallIds, ok \in BOOLEAN : DeleteCommentDeleteDoc(c, ok)
  \/ \E c \in CallIds, ok \in BOOLEAN : DeleteCommentUpdateCount(c, ok)
  \/ \E c \in CallIds : Return(c)

\* deleteComment called as its comment asks: videoId is "the ID of the post the
\* comment belongs to"
NextDelete ==
  \/ \E u \in Users, a \in Users \cup {NoUser}, d \in 1..NumUsers :
        DeleteComment(u, a, d, CommentPost(d))
  \/ DeleteStep

\* deleteComment called with any post id
NextDeleteAny ==
  \/ \E u \in Users, a \in Users \cup {NoUser}, d \in 1..NumUsers, p \in Posts :
        DeleteComment(u, a, d, p)
  \/ DeleteStep

UploadStep ==
  \/ \E c \in CallIds, ok \in BOOLEAN : UploadVideo(c, ok)
  \/ \E c \in CallIds, ok \in BOOLEAN : UploadThumbnail(c, ok)
  \/ \E c \in CallIds, ok \in BOOLEAN : UploadAddCollection(c, ok)
  \/ \E c \in CallIds, k \in DocIds \cup {0} : UploadQuery(c, k)
  \/ \E c \in CallIds, ok \in BOOLEAN : UploadSetDoc(c, ok)
  \/ \E c \in CallIds, ok \in BOOLEAN : UploadAddPost(c, ok)
  \/ \E c \in CallIds : Finish(c)

CollectionStep ==
  \/ \E c \in CallIds, ok \in BOOLEAN : CreateCollectionAddDoc(c, ok)
  \/ \E c \in CallIds, ok \in BOOLEAN : AddClipsUpdatePost(c, ok)
  \/ \E c \in CallIds, ok \in BOOLEAN : AddClipsUpdateCount(c, ok)
  \/ \E c \in CallIds : Finish(c)

NextUpload ==
  \/ \E d \in Users, a \in Users, n \in Names \cup {NewCollection}, t \in Names \cup {<<>>} :
        HandleUpload(d, a, n, t)
  \/ UploadStep

\* each user uploads from the own device
NextOwnUpload ==
  \/ \E a \in Users, n \in Names \cup {NewCollection}, t \in Names \cup {<<>>} :
        HandleUpload(a, a, n, t)
  \/ UploadStep

NextCollection ==
  \/ NextUpload
  \/ \E d \in Users, a \in Users, t \in Names : HandleCreateCollection(d, a, t)
  \/ \E d \in Users, a \in Users, k \in DocIds, sel \in SUBSET DocIds :
        HandleAddClipsToCollection(d, a, k, sel)
  \/ CollectionStep

NextStorage ==
  \E uid \in Users \cup {NoUser}, folder \in Folders, userId \in Users, size \in Sizes,
     contentType \in ContentTypes : StorageWrite(uid, folder, userId, size, contentType)

\* the feed screen of one device, while users upload clips into new collections
NextFeed ==
  \/ FeedEffect
  \/ FeedUnmount
  \/ Snapshot
  \/ \E h \in HandlerIds, ok \in BOOLEAN : HandlerPrefetched(h, ok)
  \/ \E h \in HandlerIds, ok \in BOOLEAN : HandlerTransformed(h, ok)
  \/ \E a \in Users : HandleUpload(a, a, NewCollection, <<"B">>)
  \/ \E c \in CallIds, ok \in BOOLEAN : UploadVideo(c, ok)
  \/ \E c \in CallIds, ok \in BOOLEAN : UploadThumbnail(c, ok)
  \/ \E c \in CallIds, ok \in BOOLEAN : UploadAddCollection(c, ok)
  \/ \E c \in CallIds, ok \in BOOLEAN : UploadAddPost(c, ok)
  \/ \E c \in CallIds : Finish(c)

NextRules ==
  \E uid \in Users \cup {NoUser}, p \in Posts, keys \in SUBSET {"userId", "likes", "comments"},
     userId \in Users, n \in 0..NumUsers : UpdatePost(uid, p, keys, userId, n)

\* Likes of posts: the video player's like button and the feed service's likePost.
Next ==
  \/ \E u \in Users, p \in Shown, f \in BOOLEAN : Mount(u, p, f)
  \/ \E u \in Users, a \in Users \cup {NoUser} : HandleLikePress(u, a)
  \/ \E u \in Users, p \in Shown : LikePost(u, p)
  \/ ToggleStep
  \/ LikePostStep
  \/ NextComment

Spec == Init /\ [][Next]_vars

\* Like presses on players that stay mounted.
NextLikes ==
  \/ \E u \in Users, a \in Users \cup {NoUser} : HandleLikePress(u, a)
  \/ ToggleStep

SpecLikes == InitFresh /\ [][NextLikes]_vars

\* Comments: the three ways the repository adds one.
SpecComment == InitFresh /\ [][NextComment]_vars

\* Firestore answers every write it was sent, and the event loop runs every
\* continuation that is ready: a step of a call in flight is eventually taken.
FairSpecComment == SpecComment /\ WF_vars(CommentStep)

\* Uploads, each user from the own device, starting without collections.
SpecUpload == InitFresh /\ [][NextOwnUpload]_vars

\* Uploads, collection creations and add-clips, any user on any device.
SpecCollection == InitCollections /\ [][NextCollection]_vars

\* user 1 has uploaded n clips into the collection "A"
InitFeed ==
  \E n \in 0..MaxFeedPosts :
    /\ InitRest({}, {}, {})
    /\ collDocs = IF n = 0 THEN <<>>
                  ELSE <<[title |-> <<"A">>, createdBy |-> 1, itemCount |-> n, uploads |-> n]>>
    /\ clips = [i \in 1..n |-> [userId |-> 1, collection |-> <<"A">>]]
    /\ feed = IdleFeed
    /\ handlers = [h \in HandlerIds |-> IdleHandler]
  /\ upload = NoUpload
  /\ auth = NoAuth

\* Clients writing files to Cloud Storage, held back by the storage rules.
SpecStorage == InitFresh /\ [][NextStorage]_vars

\* The feed screen and its listener.
SpecFeed == InitFeed /\ [][NextFeed]_vars

\* Clients writing posts directly, held back by the security rules alone.
SpecRules == Init /\ [][NextRules]_vars

\* Deletions of comments by callers that pass any post id.
SpecDeleteAny == InitCommented /\ [][NextDeleteAny]_vars

\* Deleting comments that exist.
SpecDelete == InitCommented /\ [][NextDelete]_vars

\* The four service functions that ask for a signed-in user.  Each device
\* has its user signed in or nobody; a signed-in user comments on the post
\* shown, and deletes or likes the own comment.  Like presses come from
\* signed-out devices here: SpecLikes has those of signed-in users.
NextService ==
  \/ \E u \in Users : HandleLikePress(u, NoUser)
  \/ \E c \in CallIds : Resume(c)
  \/ \E u \in Users : \E a \in {u, NoUser} : AddComment(u, a, player[u].post, <<" ", "a", " ">>)
  \/ \E c \in CallIds, ok \in BOOLEAN : AddCommentAddDoc(c, ok)
  \/ \E c \in CallIds, ok \in BOOLEAN : AddCommentUpdateCount(c, ok)
  \/ \E u \in Users : \E a \in {u, NoUser} : DeleteComment(u, a, u, CommentPost(u))
  \/ DeleteStep
  \/ \E u \in Users : \E a \in {u, NoUser}, l \in BOOLEAN : ToggleCommentLike(u, a, u, l)
  \/ \E c \in CallIds, ok \in BOOLEAN : ToggleCommentLikeUpdate(c, ok)

SpecService == InitCommented /\ [][NextService]_vars

\* Likes of comments in the comment modal, which is shown to signed-in users
\* only; the player, and the modal with it, may be mounted anew.
NextCommentLikes ==
  \/ \E u \in Users, p \in Shown, f \in BOOLEAN : Mount(u, p, f)
  \/ \E u \in Users, d \in 1..NumUsers : HandleLikeComment(u, u, d)
  \/ \E c \in CallIds, ok \in BOOLEAN : LikeCommentUpdate(c, ok)
  \/ \E c \in CallIds : LikeCommentResume(c)

SpecCommentLikes == InitCommented /\ [][NextCommentLikes]_vars

\* ================================================================ claims
RECURSIVE SumLikeDocs(_, _)
SumLikeDocs(p, S) ==
  IF S = {} THEN 0
  ELSE LET u == CHOOSE x \in S : TRUE
       IN likeDocs[<<p, u>>] + SumLikeDocs(p, S \ {u})

\* C1: once all like operations have completed, each post's like counter equals
\* the number of users recorded as having liked it: likes = |likedBy| for the
\* counter of togglePostLike, likeCount = number of 'likes' documents for the
\* counter of likePost.
C1_CounterEqualsEdges ==
  (\A c \in CallIds : calls[c].pc \in {"idle", "ret"}) =>
    \A p \in Posts : /\ likes[p] = Cardinality(likedBy[p])
                     /\ likeCount[p] = SumLikeDocs(p, Users)

\* C2: a togglePostLike call that reports success has applied exactly one
\* counter delta to the post, whichever path it took.
C2_OneDeltaPerSuccess ==
  \A c \in CallIds :
    (calls[c].op = "toggle" /\ calls[c].pc = "ret" /\ calls[c].result.success)
      => calls[c].nDelta = 1

\* C3: after two toggles of one user on one post in immediate sequence, the
\* second started after the first returned and nothing else in between, both
\* returning success from the straight path, the like count and the user's liked record (likedBy, likedPosts)
\* are what they were before the first.
C3_ToggleTwiceRestores ==
  seq.phase = 4 =>
    /\ likes[seq.post] = seq.likes0
    /\ (seq.client \in likedBy[seq.post]) = seq.by0
    /\ (seq.post \in likedPosts[seq.client]) = seq.posts0

\* C4: when distinct users have each liked a previously unliked post, their
\* calls running concurrently and every call having returned from the like
\* branch, the post's likedBy holds exactly those users and its counter has
\* grown by exactly their number.
C4_ConcurrentLikesAllCounted ==
  \A p \in Posts :
    (likeHist[p].clean /\ \A c \in CallIds : calls[c].post = p => calls[c].pc = "ret")
      => /\ likedBy[p] = likeHist[p].users
         /\ likes[p] = Cardinality(likeHist[p].users)

\* every user has liked post 1, concurrently, and every call has returned
C4_Witness ==
  /\ likeHist[1].clean
  /\ likeHist[1].users = Users
  /\ \A c \in CallIds : calls[c].op = "toggle" /\ calls[c].pc = "ret" /\ calls[c].line = 76
  /\ likes[1] = NumUsers

\* C5: at most one toggle of a given (user, post) pair is in flight at any time.
C5_OneToggleInFlightPerPair ==
  \A c, d \in CallIds :
    (/\ c # d
     /\ calls[c].op = "toggle" /\ calls[d].op = "toggle"
     /\ calls[c].pc \notin {"idle", "ret"} /\ calls[d].pc \notin {"idle", "ret"}
     /\ calls[c].user = calls[d].user)
      => calls[c].post # calls[d].post

\* C6: a user has at most one document in 'likes' per post.
C6_AtMostOneLikeEdge ==
  \A p \in Posts, u \in Users : likeDocs[<<p, u>>] <= 1

\* C7: no like counter and no comment counter is ever negative.
C7_CountersNeverNegative ==
  /\ \A p \in Posts : /\ likes[p] >= 0
                      /\ likeCount[p] >= 0
                      /\ comments[p] >= 0
                      /\ commentCount[p] >= 0
  /\ \A i \in 1..Len(commentDocs) : commentDocs[i].likes >= 0

\* C8: whenever togglePostLike returns success, both the post's like record
\* (likes and likedBy) and the user's likedPosts have been updated by the call.
C8_SuccessMeansBothUpdated ==
  \A c \in CallIds :
    (calls[c].op = "toggle" /\ calls[c].pc = "ret" /\ calls[c].result.success)
      => (calls[c].edge /\ calls[c].usr)

\* C9: a returned comment-adding call, of any of the three implementations,
\* whose text is empty or blank has failed, created no comment document and
\* left the counter alone; one whose text is not blank, made by a signed-in
\* user whose writes all reached the server, has succeeded, created its one
\* comment document and incremented the post's comment counter.
C9_AddCommentValidatesText ==
  \A c \in CallIds :
    (calls[c].op \in {"addComment", "feedAddComment", "postComment"} /\ calls[c].pc = "ret") =>
      /\ Trim(calls[c].text) = <<>> =>
           /\ ~calls[c].result.success
           /\ calls[c].created = 0
           /\ ~calls[c].counted
      /\ (Trim(calls[c].text) # <<>> /\ calls[c].user # NoUser /\ ~calls[c].envFail) =>
           /\ calls[c].result.success
           /\ calls[c].created # 0
           /\ calls[c].counted

\* a call of commentService.addComment or handlePostComment has returned after
\* its comment document was created and its counter increment failed
IncrementFailed(c) ==
  /\ calls[c].op \in {"addComment", "postComment"}
  /\ calls[c].pc = "ret"
  /\ calls[c].created # 0
  /\ ~calls[c].counted

CounterMatchesComments(p) == comments[p] = Cardinality(CommentsQuery(p))

\* C10: when the counter increment of a comment fails after its document was
\* created, the document is still there and is sent to the post's comment
\* listeners, and from then on the post's comment counter eventually equals
\* the number of its comments again.
C10_FailedIncrementReconciled ==
  \A c \in CallIds : \A p \in Posts :
    /\ [](IncrementFailed(c) => calls[c].created \in CommentsQuery(calls[c].post))
    /\ (IncrementFailed(c) /\ calls[c].post = p) ~> CounterMatchesComments(p)

\* C11: a returned deleteComment call made by a user who is not the comment's
\* author has failed, has not deleted the comment and has changed no comment
\* counter; one made by the author, whose writes all reached the server, leaves
\* the comment deleted, and the call that deleted it has succeeded and has
\* decremented the counter of the comment's post by exactly 1.
C11_DeleteCommentByAuthorOnly ==
  \A c \in CallIds :
    (calls[c].op = "deleteComment" /\ calls[c].pc = "ret") =>
      LET d == commentDocs[calls[c].commentId]
      IN /\ calls[c].user # d.userId =>
              /\ ~calls[c].result.success
              /\ ~calls[c].removed
              /\ calls[c].nDelta = 0
         /\ (calls[c].user = d.userId /\ ~calls[c].envFail) =>
              /\ ~d.exists
              /\ calls[c].removed =>
                   calls[c].result.success /\ calls[c].nDelta = -1
                     /\ calls[c].post = CommentPost(calls[c].commentId)
              /\ ~calls[c].removed =>
                   ~calls[c].result.success /\ calls[c].nDelta = 0

\* user 1 has deleted the own comment and the counter went from NumUsers to
\* NumUsers - 1, while user 2's attempt on the same comment has failed
C11_Witness ==
  \E c, e \in CallIds :
    /\ calls[c].op = "deleteComment" /\ calls[c].pc = "ret"
    /\ calls[c].user = 1 /\ calls[c].commentId = 1 /\ calls[c].result.success
    /\ calls[e].op = "deleteComment" /\ calls[e].pc = "ret"
    /\ calls[e].user = 2 /\ calls[e].commentId = 1 /\ calls[e].line = 89
    /\ ~commentDocs[1].exists
    /\ comments[1] = NumUsers - 1

\* no upload, collection creation or add-clips is in flight
CollectionsQuiet ==
  \A c \in CallIds :
    calls[c].op \in {"upload", "createCollection", "addClips"} => calls[c].pc = "ret"

\* the clips that are members of collection document k: those of its owner
\* whose collection field is its title
Members(k) ==
  {i \in 1..Len(clips) :
     clips[i].userId = collDocs[k].createdBy /\ clips[i].collection = collDocs[k].title}

\* C12: when an add-clips call that assigned one clip of collection A to
\* collection B has succeeded, the clip's collection is B, B's item count is
\* one more and A's item count one less than when the call began.
C12_AssignAdjustsBothCounts ==
  \A c \in CallIds :
    (/\ calls[c].op = "addClips" /\ calls[c].pc = "ret" /\ calls[c].result.success
     /\ Cardinality(calls[c].selectedClips) = 1
     /\ calls[c].fromColl \notin {0, calls[c].collId})
    => /\ \A i \in calls[c].selectedClips :
            clips[i].collection = collDocs[calls[c].collId].title
       /\ collDocs[calls[c].collId].itemCount = calls[c].toCount + 1
       /\ collDocs[calls[c].fromColl].itemCount = calls[c].fromCount - 1

\* C13: with each user uploading from the own device, a collection created by
\* an upload starts with itemCount 1 and every later upload into it adds
\* exactly 1: a collection's itemCount is the number of uploads written to it.
C13_UploadAddsOne ==
  \A k \in 1..Len(collDocs) :
    /\ collDocs[k].uploads >= 1
    /\ collDocs[k].itemCount = collDocs[k].uploads

\* user 1 has uploaded a first clip into the new collection "A" and then a
\* second one into the existing "A", whose itemCount is 2
C13_Witness ==
  /\ Len(collDocs) = 1
  /\ collDocs[1].title = <<"A">> /\ collDocs[1].createdBy = 1
  /\ collDocs[1].itemCount = 2
  /\ Cardinality(Members(1)) = 2
  /\ ncalls = 2
  /\ \E c \in CallIds :
       /\ calls[c].op = "upload" /\ calls[c].pc = "ret" /\ calls[c].result.success
       /\ calls[c].collection = <<"A">> /\ calls[c].collId = 1 /\ calls[c].itemCount = 1

\* C14: whenever no upload, collection creation or add-clips is in flight,
\* each collection's itemCount equals the number of its member clips.
C14_ItemCountEqualsMembers ==
  CollectionsQuiet =>
    \A k \in 1..Len(collDocs) : collDocs[k].itemCount = Cardinality(Members(k))

\* C15: no two collection documents have the same createdBy and the same title.
C15_TitlesUniquePerOwner ==
  \A j, k \in 1..Len(collDocs) :
    (collDocs[j].createdBy = collDocs[k].createdBy /\ collDocs[j].title = collDocs[k].title)
      => j = k

\* C16: no step changes the userId of an existing post.
C16_PostOwnerImmutable == [][\A p \in Posts : postOwner'[p] = postOwner[p]]_vars

\* ------------------------------------------------------------------ feed
\* every post that existed when a snapshot was taken, newest first, each once
AllPostsDescending(n) == [i \in 1..n |-> n + 1 - i]

\* C17: the feed a load shows lists every post that was created before the
\* load began exactly once, newest first, however many posts there are (also
\* more than the query's limit).
C17_FeedVisitsEveryPost ==
  feed.fromPosts >= 0 => feed.feedData = AllPostsDescending(feed.fromPosts)

\* C18: once the listener of a subscription is unsubscribed (unmount or effect
\* re-run), no handler run of that subscription changes the feed state any
\* more, not even one that was already running.
C18_NoUpdateAfterUnsubscribe == ~feed.late

\* C19: when the listener of one subscription has received snapshot S1 and then
\* S2, and the handler runs of both have finished, the feed shown is not the
\* one derived from the older S1.
C19_LatestSnapshotShown ==
  \A h1, h2 \in {h \in HandlerIds : handlers[h].pc # "idle"} :
    (/\ feed.mounted
     /\ h1 < h2
     /\ handlers[h1].sub = handlers[h2].sub
     /\ handlers[h1].pc = "done"
     /\ handlers[h2].pc = "done")
    => feed.fromVer # h1

\* --------------------------------------------------------------- storage
\* the media kinds a folder holds: clips are videos, profile pictures,
\* thumbnails and collection covers are images, a post's medium is either
MediaKinds(folder) ==
  CASE folder = "clips" -> {"video"}
    [] folder \in {"profilePictures", "thumbnails", "collections"} -> {"image"}
    [] OTHER -> {"video", "image"}

\* the documented limits: a video of at most 50MB with a video content type,
\* an image of at most 5MB with an image content type
WithinDocumentedLimits(folder, size, contentType) ==
  \/ "video" \in MediaKinds(folder) /\ Matches(contentType, "video") /\ size <= 50 * MB
  \/ "image" \in MediaKinds(folder) /\ Matches(contentType, "image") /\ size <= 5 * MB

\* C20: a media upload is accepted exactly when its authenticated owner writes
\* it into the own path and it is within the documented limits (video at most
\* 50MB, image at most 5MB, the boundary sizes and thumbnails included).
C20_UploadAcceptedIffWithinLimits ==
  upload.sent =>
    (upload.allowed <=>
       /\ upload.uid # NoUser
       /\ upload.uid = upload.userId
       /\ WithinDocumentedLimits(upload.folder, upload.size, upload.contentType))

\* ------------------------------------------------------ collection screen
\* C21: the posts listed for a collection document are exactly its member
\* posts: no post of another collection document (such as another owner's
\* collection of the same title) is shown, and no member post is left out.
C21_ListingIsMembers ==
  \A k \in 1..Len(collDocs) : CollectionPosts(k) = Members(k)

\* ------------------------------------------------------------ upload flow
\* C22: a post document is created only by an upload whose video and thumbnail
\* uploads have both completed, and an upload attempt that ends because a
\* media upload failed has created no post.
C22_PostAfterMediaUploaded ==
  [][/\ Len(clips') > Len(clips) =>
          \E c \in CallIds :
            /\ calls[c].op = "upload" /\ calls[c].pc = "addPost"
            /\ calls[c].video = "done" /\ calls[c].thumb = "done"
            /\ calls'[c].created = Len(clips')
     /\ \A c \in CallIds :
          (calls'[c].op = "upload" /\ "failed" \in {calls'[c].video, calls'[c].thumb})
          => /\ calls'[c].created = 0
             /\ calls'[c].pc = "ret"
             /\ (calls[c].pc \in {"video", "thumb"} => clips' = clips)]_vars

\* an upload has stored its post, and an upload of a second call has ended with
\* a failed media upload
C22_Witness ==
  /\ \E c \in CallIds :
       /\ calls[c].op = "upload" /\ calls[c].pc = "ret" /\ calls[c].created = Len(clips)
       /\ calls[c].video = "done" /\ calls[c].thumb = "done"
  /\ \E c \in CallIds :
       calls[c].op = "upload" /\ calls[c].pc = "ret" /\ calls[c].thumb = "failed"
  /\ Len(clips) = 1

\* C27: an upload attempt that has ended has reset the screen's loading flag
\* and has told the user of success or failure, whatever went wrong: the video
\* upload, the thumbnail upload, the collection write or the post write.
C27_UploadEndsNotified ==
  \A c \in CallIds :
    (calls[c].op = "upload" /\ calls[c].pc = "ret")
    => (~calls[c].loading /\ calls[c].alert # "none")

\* ------------------------------------------------- the two like records
\* C23: whenever no like toggle is in flight, post p is in users/u.likedPosts
\* exactly when u is in posts/p.likedBy, also after toggles one of whose two
\* writes failed.
C23_LikeRecordsAgree ==
  (\A c \in CallIds : calls[c].op = "toggle" => ~InFlight(c)) =>
    \A u \in Users, p \in Posts : (p \in likedPosts[u]) <=> (u \in likedBy[p])

\* --------------------------------------------------------- deleteComment
\* C30: a deleteComment call that has succeeded has decremented the comment
\* counter of the post its comment's videoId names, and of no other post.
C30_DeleteDecrementsOwnPost ==
  \A c \in CallIds :
    (calls[c].op = "deleteComment" /\ calls[c].pc = "ret" /\ calls[c].result.success)
    => calls[c].post = CommentPost(calls[c].commentId)

\* ------------------------------------------------- optimistic like update
\* C28: when handleLikePress resumes after togglePostLike, the player shows,
\* after a failure, the liked flag and the like count it showed before the
\* press, and after a success a count that differs from that one by exactly 1
\* (up for a like, down for an unlike).
C28_OptimisticLikeReverted ==
  [][\A c \in CallIds :
       (/\ calls[c].op = "toggle" /\ calls[c].pc = "ret" /\ calls[c].mounted
        /\ calls'[c].pc = "idle")
       => LET u == calls[c].client
          IN IF calls[c].result.success
             THEN player'[u].localLikes = calls[c].localLikes0 + Delta(c)
             ELSE /\ player'[u].localIsLiked = calls[c].isCurrentlyLiked
                  /\ player'[u].localLikes = calls[c].localLikes0]_vars

\* C24: called while no user is signed in, togglePostLike, toggleCommentLike,
\* addComment and deleteComment return at once with success = false and the
\* like status as it was passed in, and neither the call nor its return
\* changes a post, comment, user or like document.
C24_SignedOutCallsWriteNothing ==
  [][\A c \in CallIds :
       /\ (/\ calls[c].pc = "idle" /\ calls'[c].pc # "idle"
           /\ calls'[c].op \in {"toggle", "addComment", "deleteComment", "toggleCommentLike"} /\ calls'[c].user = NoUser)
          => /\ calls'[c].pc = "ret"
             /\ ~calls'[c].result.success
             /\ calls'[c].result.newLikeStatus = calls'[c].isCurrentlyLiked
             /\ calls'[c].result.countDelta = 0
             /\ dbVars' = dbVars
       /\ (/\ calls[c].pc # "idle" /\ calls[c].op \in {"toggle", "addComment", "deleteComment", "toggleCommentLike"}
           /\ calls[c].user = NoUser /\ calls'[c] # calls[c])
          => /\ calls[c].pc = "ret"
             /\ calls'[c].pc = "idle"
             /\ dbVars' = dbVars]_vars

\* two signed-out devices: a refused post like and a refused comment like
\* wait for their callers, and every comment is as it was
C24_Witness ==
  \E c, d \in CallIds :
    /\ calls[c].op = "toggle" /\ calls[c].user = NoUser /\ calls[c].pc = "ret"
    /\ calls[d].op = "toggleCommentLike" /\ calls[d].user = NoUser /\ calls[d].pc = "ret"
    /\ ~calls[d].isCurrentlyLiked
    /\ commentDocs = InitComments(Users)

\* C29: whatever one user presses in comment modals, that user's likes and
\* unlikes of one comment add up to 0 or +1 on the comment's likes counter.
C29_OneCommentLikePerUser ==
  \A i \in 1..Len(commentDocs), u \in Users : commentDocs[i].applied[u] \in {0, 1}


\* C25: when a call of signin, signup or signout returns or throws, loading
\* is false; and when one of the call's requests to the backend has failed,
\* the call throws.
C25_AuthCallEndsLoadingFalse ==
  [][\A c \in CallIds :
       (calls'[c].op \in {"signin", "signup", "signout"} /\ calls[c].pc # "ret" /\ calls'[c].pc = "ret")
       => /\ ~auth'.loading
          /\ calls'[c].envFail => calls'[c].result.threw]_vars

\* C26: the Stack of the authenticated part is on screen only with session
\* set; session is set exactly when the latest auth-state event carried a
\* user; and once a signout has succeeded, until somebody signs in, session
\* is false, the profile is null and what is on screen is the sign-in side.
C26_SessionFollowsAuthState ==
  /\ Rendered = "Stack" => auth.session
  /\ auth.session <=> auth.lastEvent # NoUser
  /\ auth.signedOut => /\ ~auth.session
                       /\ auth.userProfile = NoUser
                       /\ Rendered \in {"SignIn", "Loading"}

====
